---- MODULE Spec2Model ----
(***************************************************************************)
(* Verification model of skarl/event_deduplication.                        *)
(*                                                                         *)
(*   SpecResolver  one call of resolve_ambiguous_pairs: the gathered       *)
(*                 resolve_one tasks, the semaphore, the AI cache table    *)
(*                 and the usage log (ai_matching/resolver.py, cache.py,   *)
(*                 cost_tracker.py).                                       *)
(*   SpecGate      the pure function _apply_ai_result on bounded inputs.   *)
(*   SpecPersist   the orchestrator's runs (worker/orchestrator.py), the    *)
(*                 clear-and-replace persistence (worker/persistence.py)   *)
(*                 and a request of the detail endpoint beside them.       *)
(*                                                                         *)
(* Scores and confidences are floats in [0,1] in the source; the model     *)
(* keeps them as integer hundredths (0.6 is 60), which preserves every     *)
(* comparison the code makes.                                              *)
(***************************************************************************)
EXTENDS Integers, Sequences, FiniteSets, Bags, TLC

(***************************************************************************)
(* Bounds of the model.                                                    *)
(***************************************************************************)
NPairs == 2          \* number of decisions in match_result.decisions
MaxConcurrent == 2   \* largest max_concurrent_requests tried

(***************************************************************************)
(* Configuration values.                                                   *)
(***************************************************************************)
confidence_threshold == 60      \* AIMatchingConfig.confidence_threshold
min_combined_score == 45        \* AIMatchingConfig.min_combined_score
max_combined_score == 70        \* AIMatchingConfig.max_combined_score
CurrentModel == "gemini-2.5-flash"   \* AIMatchingConfig.model
StaleModel == "gemini-2.0-flash"     \* a superseded model id

None == [tag |-> "None"]                  \* Python None
RaisedException == [tag |-> "Exception"]  \* an exception object returned by gather

(***************************************************************************)
(* Records of the matching pipeline.                                       *)
(***************************************************************************)
\* MatchDecisionRecord(event_id_a, event_id_b, signals, combined_score_value,
\* decision, tier)
MatchDecisionRecord(a, b, signals, score, decision, tier) ==
    [event_id_a |-> a, event_id_b |-> b, signals |-> signals,
     combined_score_value |-> score, decision |-> decision, tier |-> tier]

\* AIMatchResult(decision, confidence); reasoning is free text and is not
\* read by any branch.
AIMatchResult(decision, confidence) ==
    [decision |-> decision, confidence |-> confidence]

(***************************************************************************)
(* _apply_ai_result                                                        *)
(***************************************************************************)
\* the confidence test of the gate
BelowThreshold_strictOff(confidence, threshold) == confidence <= threshold
BelowThreshold(confidence, threshold) == confidence < threshold

\* the mapping of the AI decision onto the pipeline decision
MapAIDecision_elseNoMatch(ai_decision) ==
    IF ai_decision = "same" THEN "match"
    ELSE "no_match"
MapAIDecision(ai_decision) ==
    IF ai_decision = "same" THEN "match"
    ELSE IF ai_decision = "different" THEN "no_match"
    ELSE "unexpected"

apply_ai_result(decision, ai_result, threshold) ==
    IF BelowThreshold(ai_result.confidence, threshold)
    THEN MatchDecisionRecord(decision.event_id_a, decision.event_id_b,
                             decision.signals, decision.combined_score_value,
                             "ambiguous", "ai_low_confidence")
    ELSE IF MapAIDecision(ai_result.decision) = "unexpected"
    THEN MatchDecisionRecord(decision.event_id_a, decision.event_id_b,
                             decision.signals, decision.combined_score_value,
                             "ambiguous", "ai_unexpected")
    ELSE MatchDecisionRecord(decision.event_id_a, decision.event_id_b,
                             decision.signals, decision.combined_score_value,
                             MapAIDecision(ai_result.decision), "ai")


(***************************************************************************)
(* Events and the content hash (ai_matching/cache.py).                     *)
(***************************************************************************)
\* Matching-relevant content of the event with this id: every event has its
\* own content, or (shared) the events of the first two pairs carry the same
\* content pairwise.
EventContent(id, shared) == IF shared /\ id <= 4 THEN id % 2 ELSE id

\* An event dict: id, matching-relevant fields, and metadata that the hash
\* must not read (source_code, batch indices, timestamps).
Event(id, shared) ==
    [id |-> id, content |-> EventContent(id, shared), meta |-> 100 + id]

\* events_by_id = {e["id"]: e for e in events}
EventsById(shared) == [id \in 1..(2 * NPairs) |-> Event(id, shared)]

extract_fields(e) == e.content

\* json.dumps + sha256 of the two extracted field dicts, lower id first; the
\* digest is modelled by the (collision-free) pair of contents it is taken of.
compute_pair_hash(event_a, event_b) ==
    IF event_a.id > event_b.id
    THEN <<extract_fields(event_b), extract_fields(event_a)>>
    ELSE <<extract_fields(event_a), extract_fields(event_b)>>

(***************************************************************************)
(* The ai_match_cache table (models/ai_match_cache.py).                    *)
(***************************************************************************)
AIMatchCache(pair_hash, a, b, ai_result, model) ==
    [pair_hash |-> pair_hash, event_id_a |-> a, event_id_b |-> b,
     decision |-> ai_result.decision, confidence |-> ai_result.confidence,
     model |-> model]

\* unique=True on pair_hash: an INSERT of a hash the table holds is rejected
UniqueViolation_none(table, row) == FALSE
UniqueViolation(table, row) == \E r \in table : r.pair_hash = row.pair_hash

\* CheckConstraint valid_ai_decision
CheckViolation(row) == row.decision \notin {"same", "different"}

\* lookup_cache: the row of this hash, honoured only for the current model
ModelIsCurrent_any(row, current_model) == TRUE
ModelIsCurrent(row, current_model) == row.model = current_model

lookup_cache(table, pair_hash, current_model) ==
    LET rows == {r \in table : r.pair_hash = pair_hash} IN
    IF rows = {} THEN None
    ELSE LET row == CHOOSE r \in rows : TRUE IN
         IF ~ModelIsCurrent(row, current_model) THEN None
         ELSE AIMatchResult(row.decision, row.confidence)

(***************************************************************************)
(* The ai_usage_log table (ai_matching/cost_tracker.py).                   *)
(***************************************************************************)
AIUsageLog(batch_id, a, b, model, total_tokens, is_cached) ==
    [batch_id |-> batch_id, event_id_a |-> a, event_id_b |-> b,
     model |-> model, total_tokens |-> total_tokens, cached |-> is_cached]

\* log_usage appends one row
log_usage_dropped(log, row) == log
log_usage(log, row) == log (+) SetToBag({row})

(***************************************************************************)
(* State.                                                                  *)
(***************************************************************************)
VARIABLES
    ai_config,        \* AIMatchingConfig of the run
    events_by_id,     \* resolve_ambiguous_pairs: the events, by id
    match_result,     \* the MatchResult handed to resolve_ambiguous_pairs
    rpc,              \* position of resolve_ambiguous_pairs
    semaphore,        \* free permits of asyncio.Semaphore
    pc,               \* position of each resolve_one task
    cached,           \* resolve_one: local `cached`
    result,           \* resolve_one: local `result` of call_gemini
    resolved,         \* what gather collected for each task
    called,           \* tasks that issued call_gemini
    ai_match_cache,   \* committed rows of ai_match_cache
    pending,          \* rows flushed by an open store_cache transaction
    ai_usage_log,     \* committed rows of ai_usage_log (a bag)
    output,           \* the MatchResult returned
    gate_in,          \* SpecGate: arguments of _apply_ai_result
    gate_out,         \* SpecGate: its return value
    file_ingestions,  \* committed rows of file_ingestions
    source_events,    \* committed ids of source_events
    db,               \* committed canonical tables: canonical_events,
                      \* canonical_event_sources, match_decisions
    session,          \* the tables as the open persistence transaction has them
    next_id,          \* autoincrement of canonical_events.id
    opc,              \* position of process_new_file / process_file_batch
    events,           \* orchestrator: local `events`
    pipeline_result,  \* orchestrator: local `pipeline_result`
    insert_k,         \* replace_canonical_events: index of the insert loop
    runs,             \* number of orchestrator calls so far
    db_before,        \* history: the committed tables when the call began
    persisted_result, \* history: the result of the last committed replace
    failed_at,        \* history: the step at which the last call raised
    reader_view,      \* get_canonical_event: its position and what it has loaded
    audit_log,        \* committed rows of audit_log, oldest first
    fn_args,          \* a call of a function of the matching pipeline: its arguments
    fn_ret,           \* what the call returned
    updated_match_result  \* _maybe_resolve_ai: local `updated_match_result`

resolverVars == <<ai_config, events_by_id, match_result, rpc, semaphore, pc, cached, result,
                  resolved, called, ai_match_cache, pending, ai_usage_log,
                  output>>
gateVars == <<gate_in, gate_out>>
persistVars == <<file_ingestions, source_events, db, session, next_id, opc,
                 events, pipeline_result, insert_k, runs, db_before,
                 persisted_result, failed_at, reader_view, audit_log>>
pureVars == <<fn_args, fn_ret, updated_match_result>>
vars == <<resolverVars, gateVars, persistVars, pureVars>>


(***************************************************************************)
(* Inputs of one resolver run.                                             *)
(***************************************************************************)
SignalsOf(p) == [date |-> 10 * p, geo |-> 10 * p + 1, title |-> 10 * p + 2,
                 description |-> 10 * p + 3]

\* What the deterministic pass can hand over for one pair: a match, a
\* no_match, an ambiguous pair on the upper edge of the sub-band and one just
\* outside it.
InputKinds ==
    { [decision |-> "match", score |-> 80],
      [decision |-> "no_match", score |-> 30],
      [decision |-> "ambiguous", score |-> 70],
      [decision |-> "ambiguous", score |-> 71] }

\* pair p is the candidate pair (2p-1, 2p): id_a < id_b, every pair once
InputDecisions ==
    { [p \in 1..NPairs |->
          MatchDecisionRecord(2 * p - 1, 2 * p, SignalsOf(p), k[p].score,
                              k[p].decision, "deterministic")]
      : k \in [1..NPairs -> InputKinds] }

CountOf(ds, decision) ==
    Cardinality({i \in 1..Len(ds) : ds[i].decision = decision})

\* MatchResult(decisions, pair_stats, match_count, ambiguous_count,
\* no_match_count); pair_stats is passed through untouched
MatchResult(ds, pair_stats, m, a, n) ==
    [decisions |-> ds, pair_stats |-> pair_stats, match_count |-> m,
     ambiguous_count |-> a, no_match_count |-> n]

PairStats == "pair_stats"

\* what the external classifier may answer
AIResults ==
    { AIMatchResult("same", 90), AIMatchResult("different", 60),
      AIMatchResult("same", 30), AIMatchResult("maybe", 90) }

\* the cache before the run: empty, an entry of the current model for the
\* content of the first pair, or one a superseded model wrote
InitialCaches(by_id) ==
    LET h == compute_pair_hash(by_id[1], by_id[2]) IN
    { {},
      {AIMatchCache(h, 1, 2, AIMatchResult("same", 90), CurrentModel)},
      {AIMatchCache(h, 1, 2, AIMatchResult("different", 90), StaleModel)} }

AIConfigs ==
    [max_concurrent_requests : 1..MaxConcurrent,
     cache_enabled : BOOLEAN,
     model : {CurrentModel},
     confidence_threshold : {confidence_threshold},
     min_combined_score : {min_combined_score},
     max_combined_score : {max_combined_score}]

BatchId == "batch"     \* str(uuid.uuid4())[:8]
CallTokens == 900      \* prompt + completion tokens of a real call

(***************************************************************************)
(* resolve_ambiguous_pairs: selection.                                     *)
(***************************************************************************)
InSubBand(d, cfg) ==
    cfg.min_combined_score <= d.combined_score_value
    /\ d.combined_score_value <= cfg.max_combined_score

IsSelected_anyAmbiguous(d, cfg) == d.decision = "ambiguous"
IsSelected(d, cfg) == d.decision = "ambiguous" /\ InSubBand(d, cfg)

RECURSIVE Filter(_, _, _)
Filter(ds, cfg, keep) ==
    IF ds = <<>> THEN <<>>
    ELSE IF IsSelected(Head(ds), cfg) = keep
         THEN <<Head(ds)>> \o Filter(Tail(ds), cfg, keep)
         ELSE Filter(Tail(ds), cfg, keep)

\* ambiguous = [d for d in match_result.decisions if ...]
ambiguous == Filter(match_result.decisions, ai_config, TRUE)

Tasks == 1..Len(ambiguous)

PairHashOf(d) ==
    compute_pair_hash(events_by_id[d.event_id_a], events_by_id[d.event_id_b])


(***************************************************************************)
(* resolve_one: the steps of one gathered task.  A task runs from one      *)
(* await to the next without interleaving; each action is one such step.   *)
(***************************************************************************)
\* `async with semaphore`: a task enters only while a permit is free
SemaphoreFree_unbounded(permits) == TRUE
SemaphoreFree(permits) == permits > 0

\* leaving the `async with` block gives the permit back
Release_leak(permits) == permits
Release(permits) == permits + 1

\* the `except Exception` branch of the call: keep the decision as it is
OnCallFailure_retiered(decision) == [decision EXCEPT !.tier = "ai"]
OnCallFailure(decision) == decision

\* the task of index i ends with value v (a decision or an exception)
Return(i, v) ==
    /\ resolved' = [resolved EXCEPT ![i] = v]
    /\ pc' = [pc EXCEPT ![i] = "done"]
    /\ semaphore' = Release(semaphore)

\* call_gemini is entered: the request is in flight
IssueCall(i) ==
    /\ pc' = [pc EXCEPT ![i] = "calling"]
    /\ called' = called \cup {i}

Acquire(i) ==
    /\ rpc = "gather"
    /\ pc[i] = "acquire"
    /\ SemaphoreFree(semaphore)
    /\ semaphore' = semaphore - 1
    /\ IF ai_config.cache_enabled
       THEN pc' = [pc EXCEPT ![i] = "lookup"] /\ UNCHANGED called
       ELSE IssueCall(i)
    /\ UNCHANGED <<ai_config, events_by_id, match_result, rpc, cached, result, resolved,
                   ai_match_cache, pending, ai_usage_log, output, gateVars, pureVars, persistVars>>

\* cached = await lookup_cache(session_factory, pair_hash, ai_config.model)
Lookup(i) ==
    /\ pc[i] = "lookup"
    /\ LET hit == lookup_cache(ai_match_cache, PairHashOf(ambiguous[i]),
                               ai_config.model) IN
       IF hit # None
       THEN /\ cached' = [cached EXCEPT ![i] = hit]
            /\ pc' = [pc EXCEPT ![i] = "log_hit"]
            /\ UNCHANGED called
       ELSE /\ IssueCall(i)
            /\ UNCHANGED cached
    /\ UNCHANGED <<ai_config, events_by_id, match_result, rpc, semaphore, result, resolved,
                   ai_match_cache, pending, ai_usage_log, output, gateVars, pureVars, persistVars>>

\* cache hit: log_usage(cached=True, 0 tokens), then _apply_ai_result; an
\* exception of the log write leaves resolve_one
LogHit(i) ==
    /\ pc[i] = "log_hit"
    /\ \E ok \in BOOLEAN :
         IF ok
         THEN /\ ai_usage_log' = log_usage(ai_usage_log,
                    AIUsageLog(BatchId, ambiguous[i].event_id_a,
                               ambiguous[i].event_id_b, ai_config.model, 0, TRUE))
              /\ Return(i, apply_ai_result(ambiguous[i], cached[i],
                                           ai_config.confidence_threshold))
         ELSE /\ UNCHANGED ai_usage_log
              /\ Return(i, RaisedException)
    /\ UNCHANGED <<ai_config, events_by_id, match_result, rpc, cached, result, called,
                   ai_match_cache, pending, output, gateVars, pureVars, persistVars>>

\* call_gemini returns (result, prompt_tokens, completion_tokens)
CallReturns(i) ==
    /\ pc[i] = "calling"
    /\ \E r \in AIResults : result' = [result EXCEPT ![i] = r]
    /\ pc' = [pc EXCEPT ![i] = "log_call"]
    /\ UNCHANGED <<ai_config, events_by_id, match_result, rpc, semaphore, cached, resolved,
                   called, ai_match_cache, pending, ai_usage_log, output,
                   gateVars, pureVars, persistVars>>

\* call_gemini raises (transport error, timeout, malformed output)
CallRaises(i) ==
    /\ pc[i] = "calling"
    /\ pc' = [pc EXCEPT ![i] = "log_fail"]
    /\ UNCHANGED <<ai_config, events_by_id, match_result, rpc, semaphore, cached, result,
                   resolved, called, ai_match_cache, pending, ai_usage_log,
                   output, gateVars, pureVars, persistVars>>

\* except branch: log_usage(cached=False, 0 tokens); return decision
LogFail(i) ==
    /\ pc[i] = "log_fail"
    /\ \E ok \in BOOLEAN :
         IF ok
         THEN /\ ai_usage_log' = log_usage(ai_usage_log,
                    AIUsageLog(BatchId, ambiguous[i].event_id_a,
                               ambiguous[i].event_id_b, ai_config.model, 0, FALSE))
              /\ Return(i, OnCallFailure(ambiguous[i]))
         ELSE /\ UNCHANGED ai_usage_log
              /\ Return(i, RaisedException)
    /\ UNCHANGED <<ai_config, events_by_id, match_result, rpc, cached, result, called,
                   ai_match_cache, pending, output, gateVars, pureVars, persistVars>>

\* log_usage(cached=False, tokens of the call); then store_cache if enabled
LogCall(i) ==
    /\ pc[i] = "log_call"
    /\ \E ok \in BOOLEAN :
         IF ok
         THEN /\ ai_usage_log' = log_usage(ai_usage_log,
                    AIUsageLog(BatchId, ambiguous[i].event_id_a,
                               ambiguous[i].event_id_b, ai_config.model,
                               CallTokens, FALSE))
              /\ IF ai_config.cache_enabled
                 THEN /\ pc' = [pc EXCEPT ![i] = "store_flush"]
                      /\ UNCHANGED <<resolved, semaphore>>
                 ELSE Return(i, apply_ai_result(ambiguous[i], result[i],
                                                ai_config.confidence_threshold))
         ELSE /\ UNCHANGED ai_usage_log
              /\ Return(i, RaisedException)
    /\ UNCHANGED <<ai_config, events_by_id, match_result, rpc, cached, result, called,
                   ai_match_cache, pending, output, gateVars, pureVars, persistVars>>


(***************************************************************************)
(* store_cache: one transaction; INSERT at flush, COMMIT on leaving the    *)
(* `session.begin()` block.                                                *)
(***************************************************************************)
\* an INSERT of a hash that an open transaction has inserted waits for that
\* transaction to end (unique index)
InsertMustWait(i, row) ==
    \E j \in Tasks : j # i /\ pending[j] # None
                     /\ pending[j].pair_hash = row.pair_hash

\* session.flush() raises; `except Exception` rolls back and swallows it
FlushRaises(table, row) == UniqueViolation(table, row) \/ CheckViolation(row)

StoreFlush(i) ==
    /\ pc[i] = "store_flush"
    /\ LET d == ambiguous[i]
           row == AIMatchCache(PairHashOf(d), d.event_id_a, d.event_id_b,
                               result[i], ai_config.model) IN
       /\ ~InsertMustWait(i, row)
       /\ IF FlushRaises(ai_match_cache, row)
          THEN /\ Return(i, apply_ai_result(d, result[i],
                                            ai_config.confidence_threshold))
               /\ UNCHANGED pending
          ELSE /\ pending' = [pending EXCEPT ![i] = row]
               /\ pc' = [pc EXCEPT ![i] = "store_commit"]
               /\ UNCHANGED <<resolved, semaphore>>
    /\ UNCHANGED <<ai_config, events_by_id, match_result, rpc, cached, result, called,
                   ai_match_cache, ai_usage_log, output, gateVars, pureVars, persistVars>>

StoreCommit(i) ==
    /\ pc[i] = "store_commit"
    /\ ai_match_cache' = ai_match_cache \cup {pending[i]}
    /\ pending' = [pending EXCEPT ![i] = None]
    /\ Return(i, apply_ai_result(ambiguous[i], result[i],
                                 ai_config.confidence_threshold))
    /\ UNCHANGED <<ai_config, events_by_id, match_result, rpc, cached, result, called,
                   ai_usage_log, output, gateVars, pureVars, persistVars>>

(***************************************************************************)
(* resolve_ambiguous_pairs: entry and exit.                                *)
(***************************************************************************)
\* `if not ambiguous: return match_result`; otherwise the semaphore is made
\* and gather starts every resolve_one
Start ==
    /\ rpc = "start"
    /\ IF ambiguous = <<>>
       THEN /\ output' = match_result
            /\ rpc' = "returned"
            /\ UNCHANGED <<semaphore, pc>>
       ELSE /\ rpc' = "gather"
            /\ semaphore' = ai_config.max_concurrent_requests
            /\ pc' = [i \in Tasks |-> "acquire"]
            /\ UNCHANGED output
    /\ UNCHANGED <<ai_config, events_by_id, match_result, cached, result, resolved, called,
                   ai_match_cache, pending, ai_usage_log, gateVars, pureVars, persistVars>>

ambiguous_ids == {<<ambiguous[i].event_id_a, ambiguous[i].event_id_b>> : i \in Tasks}

RECURSIVE NotIn(_, _)
NotIn(ds, ids) ==
    IF ds = <<>> THEN <<>>
    ELSE IF <<Head(ds).event_id_a, Head(ds).event_id_b>> \notin ids
         THEN <<Head(ds)>> \o NotIn(Tail(ds), ids)
         ELSE NotIn(Tail(ds), ids)

\* for original, result in zip(ambiguous, resolved): an exception keeps the
\* original
Collected(i) ==
    IF resolved[i] = RaisedException THEN ambiguous[i] ELSE resolved[i]

updated_decisions ==
    NotIn(match_result.decisions, ambiguous_ids) \o [i \in Tasks |-> Collected(i)]

\* gather has every result: build the updated list, recount, return
Finish ==
    /\ rpc = "gather"
    /\ \A i \in Tasks : pc[i] = "done"
    /\ output' = MatchResult(updated_decisions, match_result.pair_stats,
                             CountOf(updated_decisions, "match"),
                             CountOf(updated_decisions, "ambiguous"),
                             CountOf(updated_decisions, "no_match"))
    /\ rpc' = "returned"
    /\ UNCHANGED <<ai_config, events_by_id, match_result, semaphore, pc, cached, result,
                   resolved, called, ai_match_cache, pending, ai_usage_log,
                   gateVars, pureVars, persistVars>>

(***************************************************************************)
(* The parts of the state a specification does not use stay as they are    *)
(* before anything has run.                                                *)
(***************************************************************************)
EmptyTables ==
    [canonical_events |-> {}, canonical_event_sources |-> {},
     match_decisions |-> {}]

ResolverOff ==
    /\ ai_config = None
    /\ events_by_id = <<>>
    /\ match_result = MatchResult(<<>>, PairStats, 0, 0, 0)
    /\ rpc = "off"
    /\ semaphore = 0
    /\ pc = <<>>
    /\ cached = <<>>
    /\ result = <<>>
    /\ resolved = <<>>
    /\ called = {}
    /\ ai_match_cache = {}
    /\ pending = <<>>
    /\ ai_usage_log = EmptyBag
    /\ output = None

GateOff ==
    /\ gate_in = None
    /\ gate_out = None

PureOff ==
    /\ fn_args = None
    /\ fn_ret = None
    /\ updated_match_result = None

PersistOff ==
    /\ file_ingestions = {}
    /\ source_events = {}
    /\ db = EmptyTables
    /\ session = None
    /\ next_id = 1
    /\ opc = "off"
    /\ events = {}
    /\ pipeline_result = None
    /\ insert_k = 0
    /\ runs = 0
    /\ db_before = EmptyTables
    /\ persisted_result = None
    /\ failed_at = None
    /\ reader_view = None
    /\ audit_log = <<>>

(***************************************************************************)
(* SpecResolver                                                            *)
(***************************************************************************)
InitResolver ==
    /\ ai_config \in AIConfigs
    /\ events_by_id \in {EventsById(shared) : shared \in BOOLEAN}
    /\ \E ds \in InputDecisions :
         match_result = MatchResult(ds, PairStats, CountOf(ds, "match"),
                                    CountOf(ds, "ambiguous"),
                                    CountOf(ds, "no_match"))
    /\ rpc = "start"
    /\ semaphore = 0
    /\ pc = [i \in Tasks |-> "created"]
    /\ cached = [i \in Tasks |-> None]
    /\ result = [i \in Tasks |-> None]
    /\ resolved = [i \in Tasks |-> None]
    /\ called = {}
    /\ ai_match_cache \in InitialCaches(events_by_id)
    /\ pending = [i \in Tasks |-> None]
    /\ ai_usage_log = EmptyBag
    /\ output = None
    /\ GateOff
    /\ PersistOff
    /\ PureOff

NextResolver ==
    \/ Start
    \/ \E i \in Tasks : Acquire(i)
    \/ \E i \in Tasks : Lookup(i)
    \/ \E i \in Tasks : LogHit(i)
    \/ \E i \in Tasks : CallReturns(i)
    \/ \E i \in Tasks : CallRaises(i)
    \/ \E i \in Tasks : LogFail(i)
    \/ \E i \in Tasks : LogCall(i)
    \/ \E i \in Tasks : StoreFlush(i)
    \/ \E i \in Tasks : StoreCommit(i)
    \/ Finish

SpecResolver == InitResolver /\ [][NextResolver]_vars


(***************************************************************************)
(* SpecResolver with the scheduling of the event loop: a step that can be  *)
(* taken is eventually taken (every ready task is resumed, and every       *)
(* external call and database statement eventually answers).               *)
(***************************************************************************)
\* Whether the run ends does not hang on what the cache held before it: the
\* runs start from an empty cache and from events that share their content
\* pairwise, so that tasks hit entries other tasks wrote, collide at the
\* unique index and wait for each other's transactions.
InitLive ==
    /\ InitResolver
    /\ ai_match_cache = {}
    /\ events_by_id = EventsById(TRUE)

LiveResolver == InitLive /\ [][NextResolver]_vars /\ WF_vars(NextResolver)

(***************************************************************************)
(* SpecGate: _apply_ai_result on every input of a bounded set.             *)
(***************************************************************************)
ConfidenceLevels == {0, 30, 59, 60, 61, 90, 100}
GateThresholds == {0, 60, 100}
GateDecisionValues == {"same", "different", "maybe", ""}

GateInputs ==
    [decision : {MatchDecisionRecord(1, 2, SignalsOf(1), sc, "ambiguous",
                                     "deterministic") : sc \in {45, 70}},
     ai_result : {AIMatchResult(d, c) : d \in GateDecisionValues,
                                        c \in ConfidenceLevels},
     threshold : GateThresholds]

InitGate ==
    /\ gate_in \in GateInputs
    /\ gate_out = None
    /\ ResolverOff
    /\ PersistOff
    /\ PureOff

ApplyGate ==
    /\ gate_in # None
    /\ gate_out = None
    /\ gate_out' = apply_ai_result(gate_in.decision, gate_in.ai_result,
                                   gate_in.threshold)
    /\ UNCHANGED <<gate_in, resolverVars, persistVars, pureVars>>

NextGate == ApplyGate

SpecGate == InitGate /\ [][NextGate]_vars


(***************************************************************************)
(* Properties of the resolver.                                             *)
(***************************************************************************)
InFlight == Cardinality({i \in Tasks : pc[i] = "calling"})

EntriesOf(table, h) == {r \in table : r.pair_hash = h}

\* call_gemini raised for task i, and the task has ended
CallFailed(i) == pc[i] = "done" /\ i \in called /\ result[i] = None

\* task i went through store_cache and came out of it
StoreEnded(i) ==
    /\ ai_config.cache_enabled
    /\ pc[i] = "done"
    /\ result[i] # None
    /\ resolved[i] # RaisedException

\* the decisions of the returned list that carry the ids of d
OutputsFor(d) ==
    {k \in 1..Len(output.decisions) :
        /\ output.decisions[k].event_id_a = d.event_id_a
        /\ output.decisions[k].event_id_b = d.event_id_b}

\* C1: during one call of resolve_ambiguous_pairs the number of external
\* classifier calls in flight never exceeds max_concurrent_requests, however
\* many pairs were selected.
C1_BoundedInFlight ==
    rpc = "gather" => InFlight <= ai_config.max_concurrent_requests

\* C1 witness: every permit is held by a call in flight while a further
\* selected pair waits at the semaphore.
C1_Witness ==
    /\ rpc = "gather"
    /\ InFlight = ai_config.max_concurrent_requests
    /\ \E i \in Tasks : pc[i] = "acquire"

\* C2 as stated: once racing store_cache operations of one pair hash have
\* ended, exactly one cache entry exists for that hash.
C2_Original ==
    rpc = "gather" =>
      \A i, j \in Tasks :
        (i # j /\ StoreEnded(i) /\ StoreEnded(j)
         /\ PairHashOf(ambiguous[i]) = PairHashOf(ambiguous[j]))
        => Cardinality(EntriesOf(ai_match_cache, PairHashOf(ambiguous[i]))) = 1

\* C2 amended: racing store_cache operations of one pair hash never leave
\* more than one entry for the hash, an entry once committed is never
\* replaced, no store surfaces an error to resolve_one, and exactly one entry
\* exists afterwards whenever one of the stores carried a decision the table
\* accepts (same or different).
C2_CacheWriteOnce ==
    [][ rpc = "gather" =>
        /\ \A i \in Tasks :
             (pc[i] \in {"store_flush", "store_commit"} /\ pc'[i] = "done")
             => resolved'[i] # RaisedException
        /\ \A i \in Tasks :
             LET h == PairHashOf(ambiguous[i]) IN
             /\ Cardinality(EntriesOf(ai_match_cache', h)) <= 1
             /\ EntriesOf(ai_match_cache, h) # {}
                => EntriesOf(ai_match_cache', h) = EntriesOf(ai_match_cache, h)
             /\ (StoreEnded(i)' /\ ~CheckViolation(result'[i]))
                => Cardinality(EntriesOf(ai_match_cache', h)) = 1
      ]_vars

\* C2 witness: two stores of one hash have both ended, the row of one is the
\* entry of the hash and the row of the other was discarded.
C2_Witness ==
    /\ rpc = "gather"
    /\ \E i, j \in Tasks :
         /\ i # j
         /\ StoreEnded(i) /\ StoreEnded(j)
         /\ ~CheckViolation(result[i]) /\ ~CheckViolation(result[j])
         /\ PairHashOf(ambiguous[i]) = PairHashOf(ambiguous[j])
         /\ \E r \in ai_match_cache :
              /\ r.event_id_a = ambiguous[i].event_id_a
              /\ r.pair_hash = PairHashOf(ambiguous[i])
         /\ \A r \in ai_match_cache :
              r.event_id_a # ambiguous[j].event_id_a

\* C3: when the external call of a selected pair fails, the decision returned
\* for the pair is the original one: ambiguous, same tier, signals and
\* combined score.
C3_FailureKeepsOriginal ==
    rpc = "returned" =>
      \A i \in Tasks :
        CallFailed(i) =>
          /\ OutputsFor(ambiguous[i]) # {}
          /\ \A k \in OutputsFor(ambiguous[i]) :
               /\ output.decisions[k] = ambiguous[i]
               /\ output.decisions[k].decision = "ambiguous"
               /\ output.decisions[k].tier = "deterministic"

\* C3 witness: the resolver has returned and the call of some pair had
\* failed.
C3_Witness == rpc = "returned" /\ \E i \in Tasks : CallFailed(i)

\* every selected pair has a decision in the returned list
AllSelectedDecided ==
    \A i \in Tasks : Cardinality(OutputsFor(ambiguous[i])) = 1

\* C4: provided every external call eventually returns or raises, a started
\* resolve_ambiguous_pairs eventually returns with a decision for every
\* selected pair and with every permit given back; every task between its
\* acquire and its end holds exactly one permit, and a failing call neither
\* aborts the batch nor keeps another pair from being resolved.
C4_EventuallyReturns ==
    /\ [](rpc = "gather" =>
            semaphore + Cardinality({i \in Tasks : pc[i] \notin {"acquire", "done"}})
              = ai_config.max_concurrent_requests)
    /\ (rpc = "gather") ~>
         (/\ rpc = "returned"
          /\ AllSelectedDecided
          /\ semaphore = ai_config.max_concurrent_requests)

\* C4 witness: the resolver returned from a run with more selected pairs than
\* permits in which one call failed and another pair was resolved by the AI.
C4_Witness ==
    /\ rpc = "returned"
    /\ Len(ambiguous) > ai_config.max_concurrent_requests
    /\ AllSelectedDecided
    /\ \E i, j \in Tasks :
         /\ CallFailed(i)
         /\ resolved[j] # RaisedException /\ resolved[j] # None
         /\ resolved[j].tier = "ai"

\* a cache entry of this hash written by the configured model exists
FreshEntry(h) ==
    \E r \in ai_match_cache : r.pair_hash = h /\ r.model = ai_config.model

C10_Frame ==
    rpc = "returned" =>
      /\ Len(output.decisions) = Len(match_result.decisions)
      /\ \A k \in 1..Len(match_result.decisions) :
           LET d == match_result.decisions[k] IN
           /\ Cardinality(OutputsFor(d)) = 1
           /\ \A j \in OutputsFor(d) :
                /\ output.decisions[j].signals = d.signals
                /\ output.decisions[j].combined_score_value = d.combined_score_value
                /\ ~(d.decision = "ambiguous" /\ InSubBand(d, ai_config))
                   => output.decisions[j] = d
      /\ \A j \in 1..Len(output.decisions) :
           \E k \in 1..Len(match_result.decisions) :
             j \in OutputsFor(match_result.decisions[k])

\* C10 witness: the resolver returned a list in which a selected pair was
\* re-decided by the AI and an ambiguous pair outside the sub-band, listed
\* before it, passed through.
C10_Witness ==
    /\ rpc = "returned"
    /\ \E i \in Tasks : resolved[i] # RaisedException /\ resolved[i].tier = "ai"
    /\ match_result.decisions[1].decision = "ambiguous"
    /\ ~InSubBand(match_result.decisions[1], ai_config)
    /\ output.decisions[1] = match_result.decisions[1]

\* d is a decision of the input list that is ambiguous and inside the
\* sub-band
Qualifies(d) ==
    /\ \E k \in 1..Len(match_result.decisions) : match_result.decisions[k] = d
    /\ d.decision = "ambiguous"
    /\ InSubBand(d, ai_config)

\* the usage-log rows written for the pair of d
RowsFor(d) ==
    {r \in BagToSet(ai_usage_log) :
        r.event_id_a = d.event_id_a /\ r.event_id_b = d.event_id_b}

\* C11: a cache lookup, an external call or a usage-log write happens only
\* for a decision of the input that is ambiguous and whose combined score
\* lies inside [min_combined_score, max_combined_score]; when no decision
\* qualifies the resolver returns its input unchanged, having made no call
\* and written nothing.
C11_OnlySelectedTouched ==
    rpc # "off" =>
      /\ \A i \in DOMAIN pc :
           pc[i] \notin {"created", "acquire"} => Qualifies(ambiguous[i])
      /\ \A i \in called : Qualifies(ambiguous[i])
      /\ \A r \in BagToSet(ai_usage_log) :
           \E k \in 1..Len(match_result.decisions) :
             /\ Qualifies(match_result.decisions[k])
             /\ r \in RowsFor(match_result.decisions[k])
      /\ (rpc = "returned"
          /\ \A k \in 1..Len(match_result.decisions) :
               ~Qualifies(match_result.decisions[k]))
         => /\ output = match_result
            /\ called = {}
            /\ ai_usage_log = EmptyBag

\* C11 witness: the resolver returned its input although it held an
\* ambiguous decision, which lay outside the sub-band, and made no call.
C11_Witness ==
    /\ rpc = "returned"
    /\ output = match_result
    /\ called = {}
    /\ \E k \in 1..Len(match_result.decisions) :
         /\ match_result.decisions[k].decision = "ambiguous"
         /\ ~InSubBand(match_result.decisions[k], ai_config)

C8_ConfidenceGate ==
    gate_out # None =>
      LET r == gate_in.ai_result IN
      /\ r.confidence < gate_in.threshold
         => gate_out.decision = "ambiguous" /\ gate_out.tier = "ai_low_confidence"
      /\ (r.confidence >= gate_in.threshold /\ r.decision = "same")
         => gate_out.decision = "match" /\ gate_out.tier = "ai"
      /\ (r.confidence >= gate_in.threshold /\ r.decision = "different")
         => gate_out.decision = "no_match" /\ gate_out.tier = "ai"

\* C8 witness: the gate was applied to a result of decision same whose
\* confidence is exactly the threshold.
C8_Witness ==
    /\ gate_out # None
    /\ gate_in.ai_result.decision = "same"
    /\ gate_in.ai_result.confidence = gate_in.threshold
    /\ gate_in.threshold > 0

\* C9 as stated: every decision value that is neither same nor different
\* yields ambiguous / ai_unexpected.
C9_Original ==
    (gate_out # None /\ gate_in.ai_result.decision \notin {"same", "different"})
      => gate_out.decision = "ambiguous" /\ gate_out.tier = "ai_unexpected"

\* C9 amended: a decision value that is neither same nor different yields
\* decision ambiguous; its tier is ai_unexpected when the confidence is at or
\* above the threshold and ai_low_confidence when it is below.
C9_UnexpectedAtOrAboveThreshold ==
    (gate_out # None /\ gate_in.ai_result.decision \notin {"same", "different"})
      => /\ gate_out.decision = "ambiguous"
         /\ gate_out.tier = IF gate_in.ai_result.confidence >= gate_in.threshold
                            THEN "ai_unexpected" ELSE "ai_low_confidence"

\* C9 witness: the gate was applied to an unexpected decision value whose
\* confidence is at or above the threshold.
C9_Witness ==
    /\ gate_out # None
    /\ gate_in.ai_result.decision = "maybe"
    /\ gate_in.ai_result.confidence >= gate_in.threshold
    /\ gate_out.tier = "ai_unexpected"


(***************************************************************************)
(* SpecPersist: the orchestrator (worker/orchestrator.py) and the          *)
(* clear-and-replace persistence (worker/persistence.py), with a request   *)
(* of the detail endpoint running beside them.                             *)
(***************************************************************************)
MaxRuns == 2     \* orchestrator calls in one behaviour

\* the files that can arrive, named by their content hash, and the source
\* events each one carries
Files == {"f1", "f2"}
FileEvents(f) == IF f = "f1" THEN {1, 2} ELSE {3}

MinOf(S) == CHOOSE x \in S : \A y \in S : x <= y

\* the clusterings run_full_pipeline can return for a set of event ids
Partitions(S) ==
    {P \in SUBSET (SUBSET S \ {{}}) :
        /\ UNION P = S
        /\ \A c1, c2 \in P : c1 # c2 => c1 \cap c2 = {}}

\* clusters + flagged_clusters, as one list
RECURSIVE ClusterSeq(_)
ClusterSeq(P) ==
    IF P = {} THEN <<>>
    ELSE LET c == CHOOSE c \in P : \A d \in P : MinOf(c) <= MinOf(d) IN
         <<c>> \o ClusterSeq(P \ {c})

\* the canonical dict synthesized from one cluster; its text fields are
\* stood for by the member set they were merged from
CanonicalDict(cluster) ==
    [title |-> cluster, source_count |-> Cardinality(cluster),
     needs_review |-> Cardinality(cluster) > 2]

\* the decisions of a run, as the rows replace_canonical_events writes
DecisionRows(S, P) ==
    {[source_event_id_a |-> a, source_event_id_b |-> b,
      decision |-> IF \E c \in P : a \in c /\ b \in c THEN "match" ELSE "no_match",
      tier |-> "deterministic"] : <<a, b>> \in {q \in S \X S : q[1] < q[2]}}

\* PipelineResult: all_clusters, canonical_events (one per cluster, in the
\* same order) and match_result.decisions
PipelineResult(S, P) ==
    [all_clusters |-> ClusterSeq(P),
     canonical_events |-> [k \in 1..Cardinality(P) |-> CanonicalDict(ClusterSeq(P)[k])],
     decisions |-> DecisionRows(S, P)]

PipelineResults(S) == {PipelineResult(S, P) : P \in Partitions(S)}

\* the canonical tables as a reader joins them: every canonical event with
\* the source events linked to it, the links of no canonical event, and the
\* match decisions
ViewOf(tables) ==
    [canonicals |->
        {[title |-> c.title, source_count |-> c.source_count,
          needs_review |-> c.needs_review,
          sources |-> {l.source_event_id : l \in
                         {m \in tables.canonical_event_sources :
                             m.canonical_event_id = c.id}}]
         : c \in tables.canonical_events},
     orphans |-> {l \in tables.canonical_event_sources :
                    \A c \in tables.canonical_events : c.id # l.canonical_event_id},
     decisions |-> tables.match_decisions]

\* the complete state of a run: what ViewOf shows once the run's result is
\* stored whole (an empty store before the first run)
CompleteView(r) ==
    IF r = None THEN ViewOf(EmptyTables)
    ELSE [canonicals |->
            {[title |-> r.canonical_events[k].title,
              source_count |-> r.canonical_events[k].source_count,
              needs_review |-> r.canonical_events[k].needs_review,
              sources |-> r.all_clusters[k]] : k \in 1..Len(r.all_clusters)},
          orphans |-> {},
          decisions |-> r.decisions]

\* the steps inside the try block of process_new_file / process_file_batch
TrySteps == {"load", "pipeline", "ai", "begin", "delete_decisions",
             "delete_sources", "delete_canonicals", "insert_canonicals",
             "commit"}
\* the steps at which the persistence transaction is open
TxSteps == {"delete_decisions", "delete_sources", "delete_canonicals",
            "insert_canonicals", "commit"}
Resting == {"idle", "skipped", "failed", "completed", "error"}

\* a statement of another session sees the rows committed when it starts
\* (no isolation level is set on the engine: READ COMMITTED)
VisibleToReader(committed, tx) == committed

\* an exception leaves `async with session.begin()`: the transaction is
\* rolled back
OnException_keepsWrites(committed, tx) == IF tx = None THEN committed ELSE tx
OnException(committed, tx) == committed

\* FileProcessor.process_file for the files not ingested yet: each either
\* completes (its events are stored) or fails (a failed ingestion is logged)
Ingest(outcome) ==
    /\ file_ingestions' = file_ingestions \cup
          {[file_hash |-> f, status |-> outcome[f]] : f \in DOMAIN outcome}
    /\ source_events' = source_events \cup
          UNION {FileEvents(f) : f \in {g \in DOMAIN outcome : outcome[g] = "completed"}}

\* the idempotency check: the files whose hash no ingestion record carries
NotIngested_all(fs) == fs
NotIngested(fs) ==
    {f \in fs : \A rec \in file_ingestions : rec.file_hash # f}

\* process_new_file, step 1: ingest the file; anything but "completed" returns
StartFile(f) ==
    /\ opc \in Resting
    /\ runs < MaxRuns
    /\ runs' = runs + 1
    /\ db_before' = db
    /\ failed_at' = None
    /\ IF NotIngested({f}) = {}
       THEN /\ opc' = "skipped"
            /\ UNCHANGED <<file_ingestions, source_events>>
       ELSE \E st \in {"completed", "failed"} :
               /\ Ingest([g \in {f} |-> st])
               /\ opc' = IF st = "completed" THEN "load" ELSE "failed"
    /\ UNCHANGED <<db, session, next_id, events, pipeline_result, insert_k,
                   persisted_result, reader_view, resolverVars, gateVars, pureVars,
                   audit_log>>

\* process_file_batch, step 1: ingest every file, go on if one completed
StartBatch ==
    /\ opc \in Resting
    /\ runs < MaxRuns
    /\ runs' = runs + 1
    /\ db_before' = db
    /\ failed_at' = None
    /\ \E outcome \in [NotIngested(Files) -> {"completed", "failed"}] :
         /\ Ingest(outcome)
         /\ opc' = IF \E f \in DOMAIN outcome : outcome[f] = "completed"
                   THEN "load" ELSE "skipped"
    /\ UNCHANGED <<db, session, next_id, events, pipeline_result, insert_k,
                   persisted_result, reader_view, resolverVars, gateVars, pureVars,
                   audit_log>>

\* events = await load_all_events_as_dicts(session)
Load ==
    /\ opc = "load"
    /\ events' = source_events
    /\ opc' = "pipeline"
    /\ UNCHANGED <<file_ingestions, source_events, db, session, next_id,
                   pipeline_result, insert_k, runs, db_before,
                   persisted_result, failed_at, reader_view, resolverVars,
                   gateVars, pureVars,
                   audit_log>>

\* pipeline_result = run_full_pipeline(events, matching_config)
RunPipeline ==
    /\ opc = "pipeline"
    /\ pipeline_result' \in PipelineResults(events)
    /\ opc' = "ai"
    /\ UNCHANGED <<file_ingestions, source_events, db, session, next_id,
                   events, insert_k, runs, db_before, persisted_result,
                   failed_at, reader_view, resolverVars, gateVars, pureVars,
                   audit_log>>

\* pipeline_result = await _maybe_resolve_ai(...): the result as it is, or
\* one rebuilt from the updated decisions
MaybeResolveAI ==
    /\ opc = "ai"
    /\ pipeline_result' \in PipelineResults(events)
    /\ opc' = "begin"
    /\ UNCHANGED <<file_ingestions, source_events, db, session, next_id,
                   events, insert_k, runs, db_before, persisted_result,
                   failed_at, reader_view, resolverVars, gateVars, pureVars,
                   audit_log>>

\* async with session_factory() as session, session.begin()
BeginPersist ==
    /\ opc = "begin"
    /\ session' = db
    /\ opc' = "delete_decisions"
    /\ UNCHANGED <<file_ingestions, source_events, db, next_id, events,
                   pipeline_result, insert_k, runs, db_before,
                   persisted_result, failed_at, reader_view, resolverVars,
                   gateVars, pureVars,
                   audit_log>>

\* await session.execute(delete(MatchDecision))
DeleteMatchDecisions ==
    /\ opc = "delete_decisions"
    /\ session' = [session EXCEPT !.match_decisions = {}]
    /\ opc' = "delete_sources"
    /\ UNCHANGED <<file_ingestions, source_events, db, next_id, events,
                   pipeline_result, insert_k, runs, db_before,
                   persisted_result, failed_at, reader_view, resolverVars,
                   gateVars, pureVars,
                   audit_log>>

\* await session.execute(delete(CanonicalEventSource))
DeleteSources ==
    /\ opc = "delete_sources"
    /\ session' = [session EXCEPT !.canonical_event_sources = {}]
    /\ opc' = "delete_canonicals"
    /\ UNCHANGED <<file_ingestions, source_events, db, next_id, events,
                   pipeline_result, insert_k, runs, db_before,
                   persisted_result, failed_at, reader_view, resolverVars,
                   gateVars, pureVars,
                   audit_log>>

\* await session.execute(delete(CanonicalEvent))
DeleteCanonicals ==
    /\ opc = "delete_canonicals"
    /\ session' = [session EXCEPT !.canonical_events = {}]
    /\ insert_k' = 1
    /\ opc' = "insert_canonicals"
    /\ UNCHANGED <<file_ingestions, source_events, db, next_id, events,
                   pipeline_result, runs, db_before, persisted_result,
                   failed_at, reader_view, resolverVars, gateVars, pureVars,
                   audit_log>>

\* one round of the loop over zip(canonical_events, all_clusters): add the
\* canonical event, flush for its id, add one link per cluster member
InsertCanonical ==
    /\ opc = "insert_canonicals"
    /\ insert_k <= Len(pipeline_result.all_clusters)
    /\ LET dict == pipeline_result.canonical_events[insert_k]
           cluster == pipeline_result.all_clusters[insert_k] IN
       session' = [session EXCEPT
          !.canonical_events = @ \cup
              {[id |-> next_id, title |-> dict.title,
                source_count |-> dict.source_count,
                needs_review |-> dict.needs_review]},
          !.canonical_event_sources = @ \cup
              {[canonical_event_id |-> next_id, source_event_id |-> e]
               : e \in cluster}]
    /\ next_id' = next_id + 1
    /\ insert_k' = insert_k + 1
    /\ UNCHANGED <<file_ingestions, source_events, db, opc, events,
                   pipeline_result, runs, db_before, persisted_result,
                   failed_at, reader_view, resolverVars, gateVars, pureVars,
                   audit_log>>

\* the loop is over: the match decisions are added to the session
InsertDecisions ==
    /\ opc = "insert_canonicals"
    /\ insert_k > Len(pipeline_result.all_clusters)
    /\ session' = [session EXCEPT
          !.match_decisions = @ \cup pipeline_result.decisions]
    /\ opc' = "commit"
    /\ UNCHANGED <<file_ingestions, source_events, db, next_id, events,
                   pipeline_result, insert_k, runs, db_before,
                   persisted_result, failed_at, reader_view, resolverVars,
                   gateVars, pureVars,
                   audit_log>>

\* leaving `async with session.begin()` without an exception commits
Commit ==
    /\ opc = "commit"
    /\ db' = session
    /\ session' = None
    /\ persisted_result' = pipeline_result
    /\ opc' = "completed"
    /\ UNCHANGED <<file_ingestions, source_events, next_id, events,
                   pipeline_result, insert_k, runs, db_before, failed_at,
                   reader_view, resolverVars, gateVars, pureVars,
                   audit_log>>

\* any step of the try block raises: `except Exception` returns status error
Fail ==
    /\ opc \in TrySteps
    /\ failed_at' = opc
    /\ db' = OnException(db, session)
    /\ session' = None
    /\ opc' = "error"
    /\ UNCHANGED <<file_ingestions, source_events, next_id, events,
                   pipeline_result, insert_k, runs, db_before,
                   persisted_result, reader_view, resolverVars, gateVars, pureVars,
                   audit_log>>

(***************************************************************************)
(* get_canonical_event (api/routes/canonical_events.py): one request of    *)
(* the detail endpoint, running beside the orchestrator.  Its session      *)
(* issues one SELECT after the other; each sees what is committed when it  *)
(* starts.                                                                 *)
(***************************************************************************)
\* the complete state the store holds at this moment
PersistedNow == CompleteView(persisted_result)

\* select(CanonicalEvent).where(CanonicalEvent.id == event_id); an unknown id
\* answers 404 and reads nothing more
ReadCanonical ==
    /\ opc # "off"
    /\ reader_view = None
    /\ \E c \in VisibleToReader(db, session).canonical_events :
         reader_view' = [at |-> "sources", canonical |-> c, sources |-> {},
                         match_decisions |-> {}, states |-> {PersistedNow}]
    /\ UNCHANGED <<file_ingestions, source_events, db, session, next_id, opc,
                   events, pipeline_result, insert_k, runs, db_before,
                   persisted_result, failed_at, resolverVars, gateVars, pureVars,
                   audit_log>>

\* selectinload(CanonicalEvent.sources): the links of the loaded event
ReadSources ==
    /\ reader_view # None
    /\ reader_view.at = "sources"
    /\ reader_view' =
         [reader_view EXCEPT
            !.at = "decisions",
            !.sources = {l.source_event_id : l \in
                           {m \in VisibleToReader(db, session).canonical_event_sources :
                               m.canonical_event_id = reader_view.canonical.id}},
            !.states = @ \cup {PersistedNow}]
    /\ UNCHANGED <<file_ingestions, source_events, db, session, next_id, opc,
                   events, pipeline_result, insert_k, runs, db_before,
                   persisted_result, failed_at, resolverVars, gateVars, pureVars,
                   audit_log>>

\* if len(source_ids) >= 2: select(MatchDecision) among the source ids
ReadDecisions ==
    /\ reader_view # None
    /\ reader_view.at = "decisions"
    /\ reader_view' =
         [reader_view EXCEPT
            !.at = "done",
            !.match_decisions =
                IF Cardinality(reader_view.sources) >= 2
                THEN {d \in VisibleToReader(db, session).match_decisions :
                        /\ d.source_event_id_a \in reader_view.sources
                        /\ d.source_event_id_b \in reader_view.sources}
                ELSE {},
            !.states = IF Cardinality(reader_view.sources) >= 2
                       THEN @ \cup {PersistedNow} ELSE @]
    /\ UNCHANGED <<file_ingestions, source_events, db, session, next_id, opc,
                   events, pipeline_result, insert_k, runs, db_before,
                   persisted_result, failed_at, resolverVars, gateVars, pureVars,
                   audit_log>>

InitPersist ==
    /\ file_ingestions = {}
    /\ source_events = {}
    /\ db = EmptyTables
    /\ session = None
    /\ next_id = 1
    /\ opc = "idle"
    /\ events = {}
    /\ pipeline_result = None
    /\ insert_k = 0
    /\ runs = 0
    /\ db_before = EmptyTables
    /\ persisted_result = None
    /\ failed_at = None
    /\ reader_view = None
    /\ audit_log = <<>>
    /\ ResolverOff
    /\ GateOff
    /\ PureOff

NextPersist ==
    \/ \E f \in Files : StartFile(f)
    \/ StartBatch
    \/ Load
    \/ RunPipeline
    \/ MaybeResolveAI
    \/ BeginPersist
    \/ DeleteMatchDecisions
    \/ DeleteSources
    \/ DeleteCanonicals
    \/ InsertCanonical
    \/ InsertDecisions
    \/ Commit
    \/ Fail
    \/ ReadCanonical
    \/ ReadSources
    \/ ReadDecisions

SpecPersist == InitPersist /\ [][NextPersist]_vars

\* the detail of each canonical event of a complete state, as the endpoint
\* would answer it: the event, its sources and the decisions among them
DetailsOf(view) ==
    {[title |-> c.title, source_count |-> c.source_count,
      needs_review |-> c.needs_review, sources |-> c.sources,
      match_decisions |->
          IF Cardinality(c.sources) >= 2
          THEN {d \in view.decisions : /\ d.source_event_id_a \in c.sources
                                       /\ d.source_event_id_b \in c.sources}
          ELSE {}] : c \in view.canonicals}

\* what the request answers
DetailSeen ==
    [title |-> reader_view.canonical.title,
     source_count |-> reader_view.canonical.source_count,
     needs_review |-> reader_view.canonical.needs_review,
     sources |-> reader_view.sources,
     match_decisions |-> reader_view.match_decisions]

\* C5: the persistence step is one atomic replace: what a reader of the
\* canonical events, source links and match decisions has seen when it ran
\* beside replace_canonical_events is the complete state of the previous run
\* or the complete state of the new run, never a mixed or emptied one.
C5_AtomicReplace ==
    (reader_view # None /\ reader_view.at = "done")
      => \E view \in reader_view.states : DetailSeen \in DetailsOf(view)

\* C6: a run that fails at any step leaves the persisted canonical events,
\* source links and match decisions exactly as they were before the run, and
\* a run that completes has stored its whole result: there is no outcome in
\* between.
C6_FailedRunLeavesState ==
    /\ opc = "error" => db = db_before
    /\ opc = "completed" => ViewOf(db) = CompleteView(pipeline_result)

\* C6 witness: a run failed inside the persistence transaction, after rows
\* of an earlier successful run had been deleted in it.
C6_Witness ==
    /\ opc = "error"
    /\ failed_at \in {"insert_canonicals", "commit"}
    /\ db_before # EmptyTables


(***************************************************************************)
(* cluster_matches (clustering/graph_cluster.py) and is_cluster_coherent   *)
(* (clustering/coherence.py).                                              *)
(***************************************************************************)
NEvents == 3     \* number of records handed to the clustering

MaxDates == 3    \* is_cluster_coherent: `len(all_dates) > 3`
NoDate == 0      \* a date entry whose "date" is None

\* G.add_edge only `if decision.decision == "match"`
IsEdge_unlessNoMatch(d) == d.decision # "no_match"
IsEdge(d) == d.decision = "match"

\* the edges of G, as unordered pairs
GraphEdges(decisions) ==
    {{decisions[k].event_id_a, decisions[k].event_id_b} :
        k \in {j \in 1..Len(decisions) : IsEdge(decisions[j])}}

\* the nodes of G: every id of all_event_ids, and the ends of every edge
GraphNodes(decisions, all_event_ids) ==
    {all_event_ids[k] : k \in 1..Len(all_event_ids)} \cup UNION GraphEdges(decisions)

\* weight of an edge: add_edge of a pair already present overwrites it, the
\* last match decision of the pair counts
EdgeWeight(decisions, e) ==
    LET ks == {k \in 1..Len(decisions) :
                 /\ IsEdge(decisions[k])
                 /\ {decisions[k].event_id_a, decisions[k].event_id_b} = e}
        last == CHOOSE k \in ks : \A j \in ks : j <= k
    IN decisions[last].combined_score_value

\* nx.connected_components: the nodes reachable from a node over edges
RECURSIVE Reachable(_, _)
Reachable(E, S) ==
    LET T == S \cup {n \in UNION E : \E m \in S : {m, n} \in E} IN
    IF T = S THEN S ELSE Reachable(E, T)

connected_components(nodes, E) == {Reachable(E, {n}) : n \in nodes}

RECURSIVE SumWeights(_, _)
SumWeights(decisions, E) ==
    IF E = {} THEN 0
    ELSE LET e == CHOOSE x \in E : TRUE IN
         EdgeWeight(decisions, e) + SumWeights(decisions, E \ {e})

\* size check: len(cluster) > config.max_cluster_size
ExceedsSize_atLimit(n, max) == n >= max
ExceedsSize(n, max) == n > max

\* avg_weight < config.min_internal_similarity, for a non-empty edge list
BelowSimilarity(sum, count, min) == count > 0 /\ sum < min * count

\* the dates of a cluster: evt.get("dates") of every member found in
\* events_by_id, None discarded
ClusterDates(cluster, by_id) ==
    UNION {by_id[eid].dates : eid \in cluster \cap DOMAIN by_id} \ {NoDate}

is_cluster_coherent(cluster, decisions, config, by_id) ==
    LET inner == {e \in GraphEdges(decisions) : e \subseteq cluster} IN
    IF ExceedsSize(Cardinality(cluster), config.max_cluster_size) THEN FALSE
    ELSE IF BelowSimilarity(SumWeights(decisions, inner), Cardinality(inner),
                            config.min_internal_similarity) THEN FALSE
    ELSE IF by_id # None /\ DOMAIN by_id # {}
            /\ Cardinality(ClusterDates(cluster, by_id)) > MaxDates THEN FALSE
    ELSE TRUE

\* ClusterResult(clusters, flagged_clusters, singleton_count,
\* total_cluster_count)
cluster_matches(decisions, all_event_ids, config, by_id) ==
    LET components == connected_components(
                          GraphNodes(decisions, all_event_ids),
                          GraphEdges(decisions))
        valid == {c \in components :
                    \/ Cardinality(c) = 1
                    \/ is_cluster_coherent(c, decisions, config, by_id)}
    IN [clusters |-> ClusterSeq(valid),
        flagged_clusters |-> ClusterSeq(components \ valid),
        singleton_count |-> Cardinality({c \in components : Cardinality(c) = 1}),
        total_cluster_count |-> Cardinality(components)]

(***************************************************************************)
(* SpecCluster: cluster_matches on every input of a bounded set.           *)
(***************************************************************************)
\* the pairs (a, b), a < b, of the records, in the order the decisions list
\* holds them
RECURSIVE PairSeq(_)
PairSeq(S) ==
    IF S = {} THEN <<>>
    ELSE LET p == CHOOSE x \in S :
                    \A y \in S : x[1] < y[1] \/ (x[1] = y[1] /\ x[2] <= y[2])
         IN <<p>> \o PairSeq(S \ {p})

RecordPairs == PairSeq({q \in (1..NEvents) \X (1..NEvents) : q[1] < q[2]})

\* what the decisions list holds for one pair: nothing (the pair was no
\* candidate), an ambiguous decision, or a match of lower or higher score
PairKinds ==
    { [decision |-> "absent", score |-> 0],
      [decision |-> "ambiguous", score |-> 60],
      [decision |-> "match", score |-> 60],
      [decision |-> "match", score |-> 80] }

RECURSIVE DecisionList(_, _)
DecisionList(pairs, kind) ==
    IF pairs = <<>> THEN <<>>
    ELSE LET p == Head(pairs) IN
         (IF kind[p].decision = "absent" THEN <<>>
          ELSE <<MatchDecisionRecord(p[1], p[2], SignalsOf(p[1]), kind[p].score,
                                     kind[p].decision, "deterministic")>>)
         \o DecisionList(Tail(pairs), kind)

DecisionLists ==
    {DecisionList(RecordPairs, kind) :
        kind \in [{RecordPairs[k] : k \in 1..Len(RecordPairs)} -> PairKinds]}

\* events_by_id as the clustering reads it: not supplied, an empty dict, or
\* the dates of every record: all on one day, a day of its own each (with
\* and without an entry that has no date), or two days of its own each
DateMaps ==
    { None, <<>>,
      [id \in 1..NEvents |-> [dates |-> {1}]],
      [id \in 1..NEvents |-> [dates |-> {id}]],
      [id \in 1..NEvents |-> [dates |-> {id, NoDate}]],
      [id \in 1..NEvents |-> [dates |-> {2 * id - 1, 2 * id}]] }

ClusterConfigs ==
    [max_cluster_size : {2, NEvents}, min_internal_similarity : {60, 70}]

ClusterInputs ==
    [fn : {"cluster_matches"},
     decisions : DecisionLists,
     all_event_ids : {[k \in 1..NEvents |-> k]},
     config : ClusterConfigs,
     events_by_id : DateMaps]

InitCluster ==
    /\ fn_args \in ClusterInputs
    /\ fn_ret = None
    /\ updated_match_result = None
    /\ ResolverOff
    /\ GateOff
    /\ PersistOff

ApplyClusterMatches ==
    /\ fn_args # None
    /\ fn_args.fn = "cluster_matches"
    /\ fn_ret = None
    /\ fn_ret' = cluster_matches(fn_args.decisions, fn_args.all_event_ids,
                                 fn_args.config, fn_args.events_by_id)
    /\ UNCHANGED <<fn_args, updated_match_result, resolverVars, gateVars,
                   persistVars>>

NextCluster == ApplyClusterMatches

SpecCluster == InitCluster /\ [][NextCluster]_vars

(***************************************************************************)
(* Properties of cluster_matches.                                          *)
(***************************************************************************)
ClusterCallReturned ==
    fn_args # None /\ fn_args.fn = "cluster_matches" /\ fn_ret # None

\* the ids handed in
InputIds == {fn_args.all_event_ids[k] : k \in 1..Len(fn_args.all_event_ids)}

\* every returned cluster, valid or flagged, with the list it came in
ReturnedClusters ==
    {[list |-> "valid", k |-> k, members |-> fn_ret.clusters[k]]
        : k \in 1..Len(fn_ret.clusters)}
    \cup {[list |-> "flagged", k |-> k, members |-> fn_ret.flagged_clusters[k]]
        : k \in 1..Len(fn_ret.flagged_clusters)}

\* a match decision of the input names a and b
MatchBetween(a, b) ==
    \E k \in 1..Len(fn_args.decisions) :
      /\ fn_args.decisions[k].decision = "match"
      /\ {fn_args.decisions[k].event_id_a, fn_args.decisions[k].event_id_b} = {a, b}

\* a chain of match decisions leads from a to b
ChainBetween(a, b) ==
    \E n \in 1..NEvents :
      \E path \in [1..n -> InputIds] :
        /\ path[1] = a
        /\ path[n] = b
        /\ \A k \in 1..(n - 1) : MatchBetween(path[k], path[k + 1])

MatchesInside(c) ==
    {k \in 1..Len(fn_args.decisions) :
        /\ fn_args.decisions[k].decision = "match"
        /\ fn_args.decisions[k].event_id_a \in c
        /\ fn_args.decisions[k].event_id_b \in c}

RECURSIVE ScoreSum(_)
ScoreSum(ks) ==
    IF ks = {} THEN 0
    ELSE LET k == CHOOSE x \in ks : TRUE IN
         fn_args.decisions[k].combined_score_value + ScoreSum(ks \ {k})

\* the distinct dates the records of c carry, when date data was supplied
DatesSpanned(c) ==
    IF fn_args.events_by_id = None THEN {}
    ELSE {d \in 1..(2 * NEvents) :
            \E id \in c \cap DOMAIN fn_args.events_by_id :
              d \in fn_args.events_by_id[id].dates}

\* C15: a multi-record component is flagged, never valid, exactly when its
\* size exceeds max_cluster_size, or the mean weight of its internal edges
\* is below min_internal_similarity, or (date data supplied) it spans more
\* than 3 distinct dates; a component at the limits is valid, and a
\* singleton is always valid.
C15_FlaggedIffIncoherent ==
    ClusterCallReturned =>
      \A c \in ReturnedClusters :
        LET n == Cardinality(c.members)
            ks == MatchesInside(c.members) IN
        IF n = 1 THEN c.list = "valid"
        ELSE (c.list = "flagged") <=>
               \/ n > fn_args.config.max_cluster_size
               \/ ScoreSum(ks) <
                    fn_args.config.min_internal_similarity * Cardinality(ks)
               \/ Cardinality(DatesSpanned(c.members)) > 3

\* C15 witness: a component that is at all three limits at once (as large
\* as max_cluster_size, mean weight equal to min_internal_similarity, three
\* distinct dates) came back valid.
C15_Witness ==
    /\ ClusterCallReturned
    /\ \E c \in ReturnedClusters :
         /\ c.list = "valid"
         /\ Cardinality(c.members) > 1
         /\ Cardinality(c.members) = fn_args.config.max_cluster_size
         /\ ScoreSum(MatchesInside(c.members)) =
              fn_args.config.min_internal_similarity
                * Cardinality(MatchesInside(c.members))
         /\ Cardinality(DatesSpanned(c.members)) = 3


(***************************************************************************)
(* decide (matching/combiner.py) as score_candidate_pairs calls it for one *)
(* candidate pair (matching/pipeline.py).                                  *)
(***************************************************************************)
title_veto == 30     \* the title-veto threshold the tests of decide expect

\* score >= thresholds.high
AtOrAboveHigh_strict(score, high) == score > high
AtOrAboveHigh(score, high) == score >= high

\* score <= thresholds.low
AtOrBelowLow(score, low) == score <= low

decide(score, thresholds) ==
    IF AtOrAboveHigh(score, thresholds.high) THEN "match"
    ELSE IF AtOrBelowLow(score, thresholds.low) THEN "no_match"
    ELSE "ambiguous"

\* the loop body of score_candidate_pairs once the signals and the combined
\* score of the pair are computed: dec = decide(score, config.thresholds),
\* then the MatchDecisionRecord (its tier is the default)
ScoredDecision(id_a, id_b, signals, score, thresholds) ==
    MatchDecisionRecord(id_a, id_b, signals, score,
                        decide(score, thresholds), "deterministic")

\* ThresholdConfig: the defaults, a wide and a narrow ambiguous band
ThresholdConfigs ==
    { [high |-> 75, low |-> 35], [high |-> 90, low |-> 10],
      [high |-> 51, low |-> 50] }

TitleScores == {0, 20, 29, 30, 31, 50, 100}

DecideInputs ==
    [fn : {"decide"},
     signals : {[date |-> 100, geo |-> 100, title |-> t, description |-> 100]
                  : t \in TitleScores},
     score : 0..100,
     thresholds : ThresholdConfigs]

InitDecide ==
    /\ fn_args \in DecideInputs
    /\ fn_ret = None
    /\ updated_match_result = None
    /\ ResolverOff
    /\ GateOff
    /\ PersistOff

ApplyDecide ==
    /\ fn_args # None
    /\ fn_args.fn = "decide"
    /\ fn_ret = None
    /\ fn_ret' = ScoredDecision(1, 2, fn_args.signals, fn_args.score,
                                fn_args.thresholds)
    /\ UNCHANGED <<fn_args, updated_match_result, resolverVars, gateVars,
                   persistVars>>

NextDecide == ApplyDecide

SpecDecide == InitDecide /\ [][NextDecide]_vars

DecideReturned == fn_args # None /\ fn_args.fn = "decide" /\ fn_ret # None

\* C18: with a title-veto threshold configured, a pair whose title score is
\* strictly below it and whose combined score is at or above the high
\* threshold is decided ambiguous instead of match; a title score at the
\* veto threshold is not vetoed, and a pair that would be no_match or
\* ambiguous is decided as without the veto.
C18_TitleVeto ==
    DecideReturned =>
      LET high == fn_args.thresholds.high
          low == fn_args.thresholds.low
          title == fn_args.signals.title IN
      /\ (fn_args.score >= high /\ title < title_veto)
           => fn_ret.decision = "ambiguous"
      /\ (fn_args.score >= high /\ title >= title_veto)
           => fn_ret.decision = "match"
      /\ fn_args.score <= low => fn_ret.decision = "no_match"
      /\ (low < fn_args.score /\ fn_args.score < high)
           => fn_ret.decision = "ambiguous"

\* C19: decide returns exactly one of match, no_match and ambiguous for
\* every combined score in [0,1]: match at or above the high threshold,
\* no_match at or below the low threshold, ambiguous strictly between them.
C19_DecideThresholds ==
    DecideReturned =>
      LET dec == decide(fn_args.score, fn_args.thresholds) IN
      /\ fn_ret.decision = dec
      /\ dec \in {"match", "no_match", "ambiguous"}
      /\ (dec = "match") <=> (fn_args.score >= fn_args.thresholds.high)
      /\ (dec = "no_match") <=> (fn_args.score <= fn_args.thresholds.low)
      /\ (dec = "ambiguous") <=> (/\ fn_args.thresholds.low < fn_args.score
                                  /\ fn_args.score < fn_args.thresholds.high)

\* C19 witness: a combined score equal to the high threshold was decided.
C19_Witness ==
    /\ DecideReturned
    /\ fn_args.score = fn_args.thresholds.high
    /\ fn_ret.decision = "match"


(***************************************************************************)
(* _maybe_resolve_ai (worker/orchestrator.py) and rebuild_pipeline_result  *)
(* (matching/pipeline.py): what a run hands to persistence.                *)
(***************************************************************************)
\* d.tier.startswith("ai")
TierStartsWithAI(tier) == tier \in {"ai", "ai_low_confidence", "ai_unexpected"}

\* mean combined score of the match decisions inside the cluster, as the
\* fraction <<sum, count>>; None when there is none
_avg_cluster_confidence(cluster, decisions) ==
    LET ks == {k \in 1..Len(decisions) :
                 /\ decisions[k].decision = "match"
                 /\ decisions[k].event_id_a \in cluster
                 /\ decisions[k].event_id_b \in cluster}
        Sum[S \in SUBSET ks] ==
            IF S = {} THEN 0
            ELSE LET k == CHOOSE x \in S : TRUE IN
                 decisions[k].combined_score_value + Sum[S \ {k}]
    IN IF ks = {} THEN None ELSE <<Sum[ks], Cardinality(ks)>>

_cluster_has_ai_decisions(cluster, decisions) ==
    \E k \in 1..Len(decisions) :
        /\ TierStartsWithAI(decisions[k].tier)
        /\ decisions[k].event_id_a \in cluster
        /\ decisions[k].event_id_b \in cluster

\* the canonical dict of one cluster; the fields synthesize_canonical merges
\* are stood for by the set of records they were merged from
SynthesizedCanonical(cluster, needs_review, decisions) ==
    [sources |-> cluster,
     needs_review |-> needs_review,
     match_confidence |-> _avg_cluster_confidence(cluster, decisions),
     ai_assisted |-> _cluster_has_ai_decisions(cluster, decisions)]

CanonicalsOf(clusters, needs_review, decisions) ==
    [k \in 1..Len(clusters) |->
        SynthesizedCanonical(clusters[k], needs_review, decisions)]

\* cluster, then synthesize the valid clusters and then the flagged ones
rebuild_pipeline_result(mr, event_dicts, config) ==
    LET cluster_result ==
            cluster_matches(mr.decisions, event_dicts.all_event_ids, config.cluster,
                            event_dicts.events_by_id)
        canonical_events ==
            CanonicalsOf(cluster_result.clusters, FALSE, mr.decisions)
            \o CanonicalsOf(cluster_result.flagged_clusters, TRUE, mr.decisions)
    IN [match_result |-> mr,
        cluster_result |-> cluster_result,
        canonical_events |-> canonical_events,
        canonical_count |-> Len(canonical_events),
        flagged_count |-> Len(cluster_result.flagged_clusters)]

\* steps 2 and 3 of run_full_pipeline, on the decisions of the scoring step
run_full_pipeline(mr, event_dicts, config) ==
    rebuild_pipeline_result(mr, event_dicts, config)

\* the comparison that decides whether the run is rebuilt
SameAmbiguousCount_byMatchCount(updated, original) ==
    updated.match_count = original.match_count
SameAmbiguousCount(updated, original) ==
    updated.ambiguous_count = original.ambiguous_count

\* what resolve_ambiguous_pairs can return for a decision: the decision
\* itself when it was not selected or its task failed, else the outcome of
\* apply_ai_result for the answer of the classifier or of the cache
ResolvedAs(d, ai) ==
    IF IsSelected(d, ai)
    THEN {d} \cup {apply_ai_result(d, r, ai.confidence_threshold) : r \in AIResults}
    ELSE {d}

ResolverReturns(mr, ai) ==
    { MatchResult(ds, mr.pair_stats, CountOf(ds, "match"),
                  CountOf(ds, "ambiguous"), CountOf(ds, "no_match")) :
        ds \in {x \in [1..Len(mr.decisions) ->
                         UNION {ResolvedAs(mr.decisions[k], ai) :
                                   k \in 1..Len(mr.decisions)}] :
                   \A k \in 1..Len(mr.decisions) :
                       x[k] \in ResolvedAs(mr.decisions[k], ai)} }

\* the three records of a run and what the scoring step decided per pair:
\* a match, a no_match, an ambiguous pair inside the AI sub-band and one
\* above it
RebuildIds == <<1, 2, 3>>

RebuildPairs == PairSeq({<<1, 2>>, <<1, 3>>, <<2, 3>>})

RebuildKinds ==
    { [decision |-> "match", score |-> 80],
      [decision |-> "no_match", score |-> 30],
      [decision |-> "ambiguous", score |-> 60],
      [decision |-> "ambiguous", score |-> 72] }

RebuildDecisions ==
    {DecisionList(RebuildPairs, kind) :
        kind \in [{RebuildPairs[k] : k \in 1..Len(RebuildPairs)} -> RebuildKinds]}

RebuildMatchResults ==
    {MatchResult(ds, PairStats, CountOf(ds, "match"), CountOf(ds, "ambiguous"),
                 CountOf(ds, "no_match")) : ds \in RebuildDecisions}

RebuildEvents ==
    [all_event_ids |-> RebuildIds,
     events_by_id |-> [id \in {1, 2, 3} |-> [dates |-> {id}]]]

\* MatchingConfig: the cluster part, and the ai part with its switch and key
MatchingConfigs ==
    [cluster : [max_cluster_size : {2, 15}, min_internal_similarity : {40}],
     ai : [enabled : BOOLEAN, api_key : {"", "key"},
           confidence_threshold : {confidence_threshold},
           min_combined_score : {min_combined_score},
           max_combined_score : {max_combined_score}]]

RebuildInputs ==
    { [fn |-> "_maybe_resolve_ai",
       pipeline_result |-> run_full_pipeline(mr, RebuildEvents, cfg),
       events |-> RebuildEvents,
       matching_config |-> cfg] : mr \in RebuildMatchResults, cfg \in MatchingConfigs }

InitRebuild ==
    /\ fn_args \in RebuildInputs
    /\ fn_ret = None
    /\ updated_match_result = None
    /\ ResolverOff
    /\ GateOff
    /\ PersistOff

InMaybeResolveAI ==
    fn_args # None /\ fn_args.fn = "_maybe_resolve_ai" /\ fn_ret = None

AIEnabled(cfg) == cfg.ai.enabled /\ cfg.ai.api_key # ""

\* if not matching_config.ai.enabled or not matching_config.ai.api_key
ReturnWithoutAI ==
    /\ InMaybeResolveAI
    /\ ~AIEnabled(fn_args.matching_config)
    /\ fn_ret' = fn_args.pipeline_result
    /\ UNCHANGED <<fn_args, updated_match_result, resolverVars, gateVars,
                   persistVars>>

\* updated_match_result = await resolve_ambiguous_pairs(...)
AwaitResolve ==
    /\ InMaybeResolveAI
    /\ AIEnabled(fn_args.matching_config)
    /\ updated_match_result = None
    /\ updated_match_result' \in
           ResolverReturns(fn_args.pipeline_result.match_result,
                           fn_args.matching_config.ai)
    /\ UNCHANGED <<fn_args, fn_ret, resolverVars, gateVars, persistVars>>

\* no change of the ambiguous count: the result of the deterministic pass
ReturnOriginal ==
    /\ InMaybeResolveAI
    /\ updated_match_result # None
    /\ SameAmbiguousCount(updated_match_result,
                          fn_args.pipeline_result.match_result)
    /\ fn_ret' = fn_args.pipeline_result
    /\ UNCHANGED <<fn_args, updated_match_result, resolverVars, gateVars,
                   persistVars>>

ReturnRebuilt ==
    /\ InMaybeResolveAI
    /\ updated_match_result # None
    /\ ~SameAmbiguousCount(updated_match_result,
                           fn_args.pipeline_result.match_result)
    /\ fn_ret' = rebuild_pipeline_result(updated_match_result, fn_args.events,
                                         fn_args.matching_config)
    /\ UNCHANGED <<fn_args, updated_match_result, resolverVars, gateVars,
                   persistVars>>

NextRebuild ==
    \/ ReturnWithoutAI
    \/ AwaitResolve
    \/ ReturnOriginal
    \/ ReturnRebuilt

SpecRebuild == InitRebuild /\ [][NextRebuild]_vars

MaybeResolveReturned ==
    fn_args # None /\ fn_args.fn = "_maybe_resolve_ai" /\ fn_ret # None

\* a decision of the run was changed by AI resolution
DecisionChanged ==
    /\ updated_match_result # None
    /\ \E k \in 1..Len(updated_match_result.decisions) :
          updated_match_result.decisions[k].decision
              # fn_args.pipeline_result.match_result.decisions[k].decision

\* C13: whenever AI resolution changed a decision of the run, the result
\* handed to persistence carries the updated decisions, the clusters of the
\* updated decisions (two records a match decision joins share a cluster)
\* and one canonical event per such cluster, synthesized from its members.
C13_RebuiltAfterChange ==
    (MaybeResolveReturned /\ DecisionChanged) =>
      LET ds == updated_match_result.decisions
          cr == cluster_matches(ds, fn_args.events.all_event_ids,
                                fn_args.matching_config.cluster,
                                fn_args.events.events_by_id)
          all == fn_ret.cluster_result.clusters
                   \o fn_ret.cluster_result.flagged_clusters
      IN /\ fn_ret.match_result = updated_match_result
         /\ fn_ret.cluster_result = cr
         /\ \A k \in 1..Len(ds) :
               ds[k].decision = "match" =>
                   \E c \in 1..Len(all) :
                       {ds[k].event_id_a, ds[k].event_id_b} \subseteq all[c]
         /\ Len(fn_ret.canonical_events) = Len(all)
         /\ \A c \in 1..Len(all) :
               /\ fn_ret.canonical_events[c].sources = all[c]
               /\ fn_ret.canonical_events[c].match_confidence
                     = _avg_cluster_confidence(all[c], ds)

\* C13 witness: an ambiguous pair became a match and the run handed over
\* clusters that differ from those of the deterministic pass.
C13_Witness ==
    /\ MaybeResolveReturned
    /\ updated_match_result # None
    /\ \E k \in 1..Len(updated_match_result.decisions) :
          /\ fn_args.pipeline_result.match_result.decisions[k].decision = "ambiguous"
          /\ updated_match_result.decisions[k].decision = "match"
    /\ fn_ret.cluster_result # fn_args.pipeline_result.cluster_result


(***************************************************************************)
(* generate_candidate_pairs (matching/candidate_pairs.py).                 *)
(***************************************************************************)
NRecords == 3

\* event.get("blocking_keys") or []; the field is a record that tells a
\* missing list (is_none) from a list
KeysOf(event) ==
    IF event.blocking_keys.is_none THEN <<>> ELSE event.blocking_keys.list

\* blocking_index[key]: the events appended under the key, in list order, an
\* event once for every time the key stands in its blocking_keys
RECURSIVE BlockEvents(_, _)
BlockEvents(event_list, key) ==
    IF event_list = <<>> THEN <<>>
    ELSE LET keys == KeysOf(Head(event_list)) IN
         [k \in 1..Cardinality({n \in 1..Len(keys) : keys[n] = key})
             |-> Head(event_list)]
         \o BlockEvents(Tail(event_list), key)

BlockingKeys(event_list) ==
    UNION {{KeysOf(event_list[k])[n] : n \in 1..Len(KeysOf(event_list[k]))} :
              k \in 1..Len(event_list)}

\* if evt_a["source_code"] == evt_b["source_code"]: continue
SameSource_never(evt_a, evt_b) == FALSE
SameSource(evt_a, evt_b) == evt_a.source_code = evt_b.source_code

\* tuple(sorted([evt_a["id"], evt_b["id"]]))
SortedIds_asGiven(id_a, id_b) == <<id_a, id_b>>
SortedIds(id_a, id_b) == IF id_a <= id_b THEN <<id_a, id_b>> ELSE <<id_b, id_a>>

\* the pairs one block adds to seen
BlockPairs(block_events) ==
    {SortedIds(block_events[i].id, block_events[j].id) :
        <<i, j>> \in {q \in (1..Len(block_events)) \X (1..Len(block_events)) :
                         /\ q[1] < q[2]
                         /\ ~SameSource(block_events[q[1]], block_events[q[2]])}}

\* the number of pairs of events of different sources
_count_cross_source_pairs(event_list) ==
    Cardinality({q \in (1..Len(event_list)) \X (1..Len(event_list)) :
                    /\ q[1] < q[2]
                    /\ event_list[q[1]].source_code # event_list[q[2]].source_code})

\* (pairs, CandidatePairStats); reduction_pct is kept as the fraction
\* <<numerator, denominator>> of (1 - blocked / total_possible) * 100
generate_candidate_pairs(event_list) ==
    LET seen == UNION {BlockPairs(BlockEvents(event_list, key)) :
                          key \in BlockingKeys(event_list)}
        pairs == PairSeq(seen)
        total_possible == _count_cross_source_pairs(event_list)
        blocked == Len(pairs)
    IN [pairs |-> pairs,
        stats |-> [total_events |-> Len(event_list),
                   total_possible_pairs |-> total_possible,
                   blocked_pairs |-> blocked,
                   reduction_pct |-> IF total_possible > 0
                                     THEN <<100 * (total_possible - blocked),
                                            total_possible>>
                                     ELSE <<0, 1>>]]

\* the blocking_keys of an event: missing, none, one, two, one twice
BlockingKeyLists ==
    {[is_none |-> TRUE, list |-> <<>>]}
    \cup {[is_none |-> FALSE, list |-> l] :
             l \in {<<>>, <<"k1">>, <<"k2">>, <<"k1", "k2">>, <<"k1", "k1">>}}

\* the events of a run: ids are unique, in rising or in falling list order
CandidateEvents ==
    { [k \in 1..NRecords |->
          [id |-> IF rising THEN k ELSE NRecords + 1 - k,
           source_code |-> src[k], blocking_keys |-> keys[k]]] :
        rising \in BOOLEAN,
        src \in [1..NRecords -> {"src_a", "src_b"}],
        keys \in [1..NRecords -> BlockingKeyLists] }

InitCandidates ==
    /\ fn_args \in [fn : {"generate_candidate_pairs"}, events : CandidateEvents]
    /\ fn_ret = None
    /\ updated_match_result = None
    /\ ResolverOff
    /\ GateOff
    /\ PersistOff

ApplyGenerateCandidatePairs ==
    /\ fn_args # None
    /\ fn_args.fn = "generate_candidate_pairs"
    /\ fn_ret = None
    /\ fn_ret' = generate_candidate_pairs(fn_args.events)
    /\ UNCHANGED <<fn_args, updated_match_result, resolverVars, gateVars,
                   persistVars>>

NextCandidates == ApplyGenerateCandidatePairs

SpecCandidates == InitCandidates /\ [][NextCandidates]_vars

CandidatesReturned ==
    fn_args # None /\ fn_args.fn = "generate_candidate_pairs" /\ fn_ret # None

\* the keys two events of the input have in common
SharedKeys(i, j) ==
    {KeysOf(fn_args.events[i])[n] : n \in 1..Len(KeysOf(fn_args.events[i]))}
    \cap {KeysOf(fn_args.events[j])[n] : n \in 1..Len(KeysOf(fn_args.events[j]))}

\* the event of the input with this id
EventWithId(id) ==
    fn_args.events[CHOOSE k \in 1..Len(fn_args.events) : fn_args.events[k].id = id]

\* C16: every pair generate_candidate_pairs emits has id_a < id_b, and no
\* unordered pair of records stands twice in the emitted list, however many
\* blocking keys the two records share.
C16_OrderedAndOnce ==
    CandidatesReturned =>
      /\ \A k \in 1..Len(fn_ret.pairs) : fn_ret.pairs[k][1] < fn_ret.pairs[k][2]
      /\ \A k, n \in 1..Len(fn_ret.pairs) :
            k # n => {fn_ret.pairs[k][1], fn_ret.pairs[k][2]}
                       # {fn_ret.pairs[n][1], fn_ret.pairs[n][2]}

\* C16 witness: two records that share two blocking keys, the larger id
\* first in the input, were emitted as a pair.
C16_Witness ==
    /\ CandidatesReturned
    /\ \E i, j \in 1..Len(fn_args.events) :
          /\ i < j
          /\ fn_args.events[i].id > fn_args.events[j].id
          /\ Cardinality(SharedKeys(i, j)) = 2
          /\ \E k \in 1..Len(fn_ret.pairs) :
                fn_ret.pairs[k] = <<fn_args.events[j].id, fn_args.events[i].id>>

\* C17: the two records of every emitted pair come from different sources
\* and have a blocking key in common.
C17_OnlyCrossSourceSharedKey ==
    CandidatesReturned =>
      \A k \in 1..Len(fn_ret.pairs) :
          LET a == EventWithId(fn_ret.pairs[k][1])
              b == EventWithId(fn_ret.pairs[k][2]) IN
          /\ a.source_code # b.source_code
          /\ \E i, j \in 1..Len(fn_args.events) :
                /\ fn_args.events[i] = a
                /\ fn_args.events[j] = b
                /\ SharedKeys(i, j) # {}

\* C17 witness: the input held two records of one source that share a key
\* and two records of different sources that share none, and the one pair
\* emitted is neither of them.
C17_Witness ==
    /\ CandidatesReturned
    /\ Len(fn_ret.pairs) = 1
    /\ \E i, j \in 1..Len(fn_args.events) :
          /\ i # j
          /\ fn_args.events[i].source_code = fn_args.events[j].source_code
          /\ SharedKeys(i, j) # {}
    /\ \E i, j \in 1..Len(fn_args.events) :
          /\ fn_args.events[i].source_code # fn_args.events[j].source_code
          /\ SharedKeys(i, j) = {}


(***************************************************************************)
(* synthesize_canonical (canonical/synthesizer.py), its text fields, and   *)
(* enrich_canonical (canonical/enrichment.py).                             *)
(***************************************************************************)
title_min_length == 10

\* a text field: None, or a string
NoText == [is_none |-> TRUE, s |-> ""]
Text(s) == [is_none |-> FALSE, s |-> s]

\* len(value or "")
TextLen(t) == IF t.is_none THEN 0 ELSE Len(t.s)

\* if val:
Truthy(t) == ~t.is_none /\ t.s # ""

\* dict.get(key, default)
Get(d, key, default) == IF key \in DOMAIN d THEN d[key] ELSE default

\* the first of the events of pool whose field is longest
FirstLongest(event_list, field, pool) ==
    CHOOSE k \in pool :
        /\ \A j \in pool : TextLen(event_list[j][field]) <= TextLen(event_list[k][field])
        /\ \A j \in pool : TextLen(event_list[j][field]) = TextLen(event_list[k][field])
                             => k <= j

\* (value, source_event_id)
_select_longest(event_list, field) ==
    LET pool == {k \in 1..Len(event_list) : Truthy(event_list[k][field])} IN
    IF pool = {} THEN <<NoText, event_list[1].id>>
    ELSE LET k == FirstLongest(event_list, field, pool) IN
         <<event_list[k][field], event_list[k].id>>

_select_longest_non_generic(event_list, field, min_length) ==
    LET all_candidates == {k \in 1..Len(event_list) : Truthy(event_list[k][field])}
        long_candidates == {k \in all_candidates :
                              TextLen(event_list[k][field]) >= min_length}
        pool == IF long_candidates # {} THEN long_candidates ELSE all_candidates
    IN IF pool = {} THEN <<Text(""), event_list[1].id>>
       ELSE LET k == FirstLongest(event_list, field, pool) IN
            <<event_list[k][field], event_list[k].id>>

\* the text fields of the canonical dict, their provenance and source_count;
\* the other fields are merged the same way and enrichment passes them on
synthesize_canonical(source_list) ==
    LET title == _select_longest_non_generic(source_list, "title", title_min_length)
        sd == _select_longest(source_list, "short_description")
        desc == _select_longest(source_list, "description")
    IN [title |-> title[1],
        short_description |-> sd[1],
        description |-> desc[1],
        field_provenance |-> [title |-> title[2], short_description |-> sd[2],
                              description |-> desc[2]],
        source_count |-> Len(source_list)]

_TEXT_FIELDS == {"title", "short_description", "description"}

\* if existing_len > new_len
ExistingLonger_never(existing_len, new_len) == FALSE
ExistingLonger(existing_len, new_len) == existing_len > new_len

enrich_canonical(existing_canonical, all_sources) ==
    LET new_canonical == synthesize_canonical(all_sources)
        existing_provenance == Get(existing_canonical, "field_provenance", <<>>)
        keep == [field \in _TEXT_FIELDS |->
                   ExistingLonger(TextLen(Get(existing_canonical, field, NoText)),
                                  TextLen(new_canonical[field]))]
        value(field) == IF keep[field] THEN existing_canonical[field]
                        ELSE new_canonical[field]
    IN [title |-> value("title"),
        short_description |-> value("short_description"),
        description |-> value("description"),
        field_provenance |->
            [field \in _TEXT_FIELDS |->
                IF keep[field] THEN Get(existing_provenance, field, "unknown")
                ELSE new_canonical.field_provenance[field]],
        version |-> Get(existing_canonical, "version", 1) + 1,
        source_count |-> Len(all_sources)]

\* the sources handed over: two records with their text fields
EnrichSources ==
    { <<[id |-> "a", title |-> ta, short_description |-> sa, description |-> da],
        [id |-> "b", title |-> tb, short_description |-> sb, description |-> dsb]>> :
        ta \in {NoText, Text("Fasnet"), Text("Grosser Fasnetumzug")},
        tb \in {NoText, Text("Umzug!"), Text("Grosser Fasnetumzug")},
        sa \in {NoText, Text("Kurz")}, sb \in {Text(""), Text("Kurz")},
        da \in {NoText, Text("Lang genug")}, dsb \in {NoText, Text("Lang genug")} }

\* the canonical of an earlier synthesis or enrichment: its text fields with
\* their provenance, without a version or with one
ExistingTexts ==
    [title : {Text(""), Text("Fasnet"), Text("Umzug!"),
              Text("Grosser Fasnetumzug Waldkirch")},
     short_description : {NoText, Text("Kurz"), Text("Kurztext")},
     description : {NoText, Text("Lang genug"), Text("Eine lange Beschreibung")}]

ExistingCanonicals ==
    UNION { { [title |-> t.title, short_description |-> t.short_description,
               description |-> t.description,
               field_provenance |-> [title |-> "old", short_description |-> "old",
                                     description |-> "old"],
               source_count |-> 1],
              [title |-> t.title, short_description |-> t.short_description,
               description |-> t.description,
               field_provenance |-> [title |-> "old", short_description |-> "old",
                                     description |-> "old"],
               source_count |-> 1, version |-> 1],
              [title |-> t.title, short_description |-> t.short_description,
               description |-> t.description,
               field_provenance |-> [title |-> "old", short_description |-> "old",
                                     description |-> "old"],
               source_count |-> 1, version |-> 5] } : t \in ExistingTexts }

InitEnrich ==
    /\ fn_args \in { [fn |-> "enrich_canonical", existing_canonical |-> e,
                      all_sources |-> src] :
                        e \in ExistingCanonicals, src \in EnrichSources }
    /\ fn_ret = None
    /\ updated_match_result = None
    /\ ResolverOff
    /\ GateOff
    /\ PersistOff

ApplyEnrichCanonical ==
    /\ fn_args # None
    /\ fn_args.fn = "enrich_canonical"
    /\ fn_ret = None
    /\ fn_ret' = enrich_canonical(fn_args.existing_canonical, fn_args.all_sources)
    /\ UNCHANGED <<fn_args, updated_match_result, resolverVars, gateVars,
                   persistVars>>

NextEnrich == ApplyEnrichCanonical

SpecEnrich == InitEnrich /\ [][NextEnrich]_vars

EnrichReturned ==
    fn_args # None /\ fn_args.fn = "enrich_canonical" /\ fn_ret # None

\* C20: enrich_canonical never returns a title, short description or
\* description shorter than the existing canonical's; where the existing
\* value is strictly longer than the freshly synthesized one, the existing
\* value and its provenance are returned; the returned version is the
\* existing version (1 when the canonical carries none) plus one.
C20_NoDowngrade ==
    EnrichReturned =>
      LET existing == fn_args.existing_canonical
          fresh == synthesize_canonical(fn_args.all_sources) IN
      /\ \A field \in _TEXT_FIELDS :
            /\ TextLen(fn_ret[field]) >= TextLen(existing[field])
            /\ TextLen(existing[field]) > TextLen(fresh[field])
                 => /\ fn_ret[field] = existing[field]
                    /\ fn_ret.field_provenance[field]
                          = existing.field_provenance[field]
      /\ fn_ret.version
            = (IF "version" \in DOMAIN existing THEN existing.version ELSE 1) + 1

\* C20 witness: the existing title was strictly longer than the title
\* synthesized from the sources, which have one, and the existing version
\* was 5.
C20_Witness ==
    /\ EnrichReturned
    /\ "version" \in DOMAIN fn_args.existing_canonical
    /\ fn_args.existing_canonical.version = 5
    /\ LET fresh == synthesize_canonical(fn_args.all_sources) IN
       /\ TextLen(fresh.title) > 0
       /\ TextLen(fn_args.existing_canonical.title) > TextLen(fresh.title)
    /\ fn_ret.title = fn_args.existing_canonical.title
    /\ fn_ret.version = 6


(***************************************************************************)
(* compute_pair_hash (ai_matching/cache.py) on two pairs of records.       *)
(***************************************************************************)
\* a record as one ingestion stored it: its id, its matching-relevant
\* content and its metadata
HashEvents ==
    [id : {1, 2, 3}, content : {"X", "Y"}, meta : {0, 1}]

\* two pairs of records, the records of a pair under different ids
HashInputs ==
    { [fn |-> "compute_pair_hash", first |-> <<a, b>>, second |-> <<c, d>>] :
        a \in {e \in HashEvents : e.meta = 0}, b \in {e \in HashEvents : e.meta = 0},
        c \in HashEvents, d \in {e \in HashEvents : e.meta = 0} }

InitHash ==
    /\ fn_args \in {x \in HashInputs : /\ x.first[1].id # x.first[2].id
                                      /\ x.second[1].id # x.second[2].id}
    /\ fn_ret = None
    /\ updated_match_result = None
    /\ ResolverOff
    /\ GateOff
    /\ PersistOff

ApplyComputePairHash ==
    /\ fn_args # None
    /\ fn_args.fn = "compute_pair_hash"
    /\ fn_ret = None
    /\ fn_ret' = [first |-> compute_pair_hash(fn_args.first[1], fn_args.first[2]),
                  second |-> compute_pair_hash(fn_args.second[1], fn_args.second[2])]
    /\ UNCHANGED <<fn_args, updated_match_result, resolverVars, gateVars,
                   persistVars>>

NextHash == ApplyComputePairHash

SpecHash == InitHash /\ [][NextHash]_vars

\* C21: two pairs whose two records carry the same matching-relevant
\* content, taken as unordered pairs, have the same hash, whatever the
\* argument order, the ids and the metadata of the records.
C21_HashOfContentOnly ==
    (fn_args # None /\ fn_args.fn = "compute_pair_hash" /\ fn_ret # None) =>
      LET a == fn_args.first[1].content
          b == fn_args.first[2].content
          c == fn_args.second[1].content
          d == fn_args.second[2].content
      IN ((a = c /\ b = d) \/ (a = d /\ b = c)) => fn_ret.first = fn_ret.second


\* C22: the ai_assisted flag of every canonical event of the returned result
\* is true exactly when a match decision between two members of its cluster
\* carries the AI tier.
C22_AiAssistedIffAiEdge ==
    MaybeResolveReturned =>
      \A c \in 1..Len(fn_ret.canonical_events) :
          LET canonical == fn_ret.canonical_events[c]
              ds == fn_ret.match_result.decisions IN
          canonical.ai_assisted
            <=> \E k \in 1..Len(ds) :
                   /\ ds[k].decision = "match"
                   /\ ds[k].tier = "ai"
                   /\ ds[k].event_id_a \in canonical.sources
                   /\ ds[k].event_id_b \in canonical.sources


\* the match_decisions row replace_canonical_events writes for a decision
MatchDecisionRow(decision) ==
    [source_event_id_a |-> decision.event_id_a,
     source_event_id_b |-> decision.event_id_b,
     combined_score |-> decision.combined_score_value,
     date_score |-> decision.signals.date,
     geo_score |-> decision.signals.geo,
     title_score |-> decision.signals.title,
     description_score |-> decision.signals.description,
     decision |-> decision.decision,
     tier |-> decision.tier]

\* step 5 of replace_canonical_events for the result the run hands over
MatchDecisionRows(mr) ==
    {MatchDecisionRow(mr.decisions[k]) : k \in 1..Len(mr.decisions)}

\* C25: after a run with AI resolution the match decisions that are stored
\* are the decisions the resolver returned, tier included.
C25_PersistedAsResolved ==
    (MaybeResolveReturned /\ updated_match_result # None) =>
      MatchDecisionRows(fn_ret.match_result)
          = MatchDecisionRows(updated_match_result)


\* C29: writing the usage log and the cache is observational: a selected
\* pair whose external call succeeded, or that was served from the cache, is
\* returned with the decision derived from that answer, whatever happened to
\* its usage-log row and its cache entry.
C29_LogAndCacheObservational ==
    rpc = "returned" =>
      \A i \in Tasks :
        LET answer == IF result[i] # None THEN result[i] ELSE cached[i] IN
        answer # None =>
          \A k \in OutputsFor(ambiguous[i]) :
              output.decisions[k]
                  = apply_ai_result(ambiguous[i], answer,
                                    ai_config.confidence_threshold)


\* C26: with caching enabled, once the external call of a pair has succeeded
\* under the configured model with an answer the cache table accepts and
\* its task has ended without error, a later lookup for a pair of the same
\* content hash is a cache hit and issues no external call, also when the
\* cache held an entry of a superseded model for that hash before.
C26_ServedFromCacheAfterCall ==
    [][ \A i, j \in Tasks :
          (/\ rpc = "gather"
           /\ i # j
           /\ StoreEnded(j)
           /\ ~CheckViolation(result[j])
           /\ PairHashOf(ambiguous[i]) = PairHashOf(ambiguous[j])
           /\ pc[i] = "lookup"
           /\ pc'[i] # "lookup")
          => (pc'[i] = "log_hit" /\ i \notin called')
      ]_vars


\* C28: when two selected pairs of one content hash were both resolved by
\* an external call in one run with caching enabled, and the run ends with
\* an entry of the configured model stored for the hash, both pairs are
\* returned with the decision and tier derived from that entry.
C28_SameHashSameDecision ==
    (rpc = "returned" /\ ai_config.cache_enabled) =>
      \A i, j \in Tasks :
        (/\ i # j
         /\ PairHashOf(ambiguous[i]) = PairHashOf(ambiguous[j])
         /\ StoreEnded(i)
         /\ StoreEnded(j))
        => \A e \in EntriesOf(ai_match_cache, PairHashOf(ambiguous[i])) :
             e.model = ai_config.model =>
               \A t \in {i, j} : \A k \in OutputsFor(ambiguous[t]) :
                 LET derived == apply_ai_result(
                                    ambiguous[t],
                                    AIMatchResult(e.decision, e.confidence),
                                    ai_config.confidence_threshold) IN
                 /\ output.decisions[k].decision = derived.decision
                 /\ output.decisions[k].tier = derived.tier


\* C23: processing a file whose content hash is already recorded returns
\* status skipped and adds no source event and no ingestion record; no step
\* adds an ingestion record or source events for a recorded file, and no
\* file hash is ever recorded twice.
C23_IngestionIdempotent ==
    [][ /\ \A f \in Files :
             (\E rec \in file_ingestions : rec.file_hash = f) =>
                /\ StartFile(f) =>
                      /\ opc' = "skipped"
                      /\ file_ingestions' = file_ingestions
                      /\ source_events' = source_events
                /\ {rec \in file_ingestions' : rec.file_hash = f}
                      = {rec \in file_ingestions : rec.file_hash = f}
                /\ (\E rec \in file_ingestions :
                       rec.file_hash = f /\ rec.status = "failed")
                      => (source_events' \cap FileEvents(f))
                            = (source_events \cap FileEvents(f))
        /\ \A f \in Files :
             Cardinality({rec \in file_ingestions' : rec.file_hash = f}) <= 1
      ]_vars

\* C23 witness: the first file was ingested and its run completed, and
\* processing the same file again was skipped.
C23_Witness ==
    /\ opc = "skipped"
    /\ runs = 2
    /\ file_ingestions = {[file_hash |-> "f1", status |-> "completed"]}
    /\ source_events = FileEvents("f1")
    /\ persisted_result # None


\* C27: when the ingestion of a file completed, the pipeline run after it
\* ended with status error and the file's events are not in the persisted
\* canonical state, processing the same file again runs the pipeline again.
C27_RetryRunsPipeline ==
    [][ \A f \in Files :
          (/\ opc = "error"
           /\ [file_hash |-> f, status |-> "completed"] \in file_ingestions
           /\ ~(FileEvents(f) \subseteq
                  {l.source_event_id : l \in db.canonical_event_sources})
           /\ StartFile(f))
          => opc' = "load"
      ]_vars

(***************************************************************************)
(* The review operations (review/operations.py, api/routes/review.py) on   *)
(* the canonical tables, between the runs of the orchestrator.  Each is    *)
(* one transaction; an HTTPException raised in it rolls it back.           *)
(***************************************************************************)
MaxReviews == 2  \* review operations that succeed in one behaviour

\* a nullable column
Null == [is_none |-> TRUE]
Some(x) == [is_none |-> FALSE, id |-> x]

LinksOf(tables, canonical_id) ==
    {l \in tables.canonical_event_sources : l.canonical_event_id = canonical_id}
SourcesOf(tables, canonical_id) ==
    {l.source_event_id : l \in LinksOf(tables, canonical_id)}

\* update_canonical_from_dict(canonical, synthesize_canonical(source_dicts))
\* followed by `canonical.needs_review = False`
Resynthesized(canonical, sources) ==
    [id |-> canonical.id, title |-> CanonicalDict(sources).title,
     source_count |-> CanonicalDict(sources).source_count,
     needs_review |-> FALSE]

\* the request is answered with an HTTPException: nothing is written
Rejected(tables, nid, code) ==
    [status |-> code, tables |-> tables, next_id |-> nid, audit |-> None]

\* split_source_from_canonical, step 3: `len(remaining_links) == 0`
original_deleted_never(remaining) == FALSE
original_deleted(remaining) == remaining = {}

\* split_source_from_canonical(session, canonical_event_id, source_event_id,
\* target_canonical_id): the tables, the id sequence and the audit row after
\* the call
split_source_from_canonical(tables, nid, canonical_event_id, source_event_id, target_canonical_id) ==
    LET link == {l \in tables.canonical_event_sources :
                    /\ l.canonical_event_id = canonical_event_id
                    /\ l.source_event_id = source_event_id}
        t1 == [tables EXCEPT !.canonical_event_sources = @ \ link]
        remaining == SourcesOf(t1, canonical_event_id)
        deleted == original_deleted(remaining)
        t2 == IF deleted
              THEN [t1 EXCEPT
                      !.canonical_event_sources =
                          @ \ LinksOf(t1, canonical_event_id),
                      !.canonical_events =
                          {c \in @ : c.id # canonical_event_id}]
              ELSE [t1 EXCEPT
                      !.canonical_events =
                          {IF c.id = canonical_event_id
                           THEN Resynthesized(c, remaining) ELSE c : c \in @}]
    IN
    IF link = {} THEN Rejected(tables, nid, 404)
    ELSE IF ~target_canonical_id.is_none
    THEN IF \A c \in t2.canonical_events : c.id # target_canonical_id.id
         THEN Rejected(tables, nid, 404)
         ELSE LET t3 == [t2 EXCEPT !.canonical_event_sources = @ \cup
                           {[canonical_event_id |-> target_canonical_id.id,
                             source_event_id |-> source_event_id]}]
                  t4 == [t3 EXCEPT !.canonical_events =
                           {IF c.id = target_canonical_id.id
                            THEN Resynthesized(c, SourcesOf(t3, c.id))
                            ELSE c : c \in @}]
              IN [status |-> 200, tables |-> t4, next_id |-> nid,
                  audit |-> [action_type |-> "split",
                             canonical_event_id |->
                                 IF deleted THEN Null
                                 ELSE Some(canonical_event_id),
                             source_event_id |-> Some(source_event_id),
                             details |->
                                 [target_canonical_id |-> target_canonical_id,
                                  original_deleted |-> deleted]]]
    ELSE LET t3 == [t2 EXCEPT
                      !.canonical_events = @ \cup
                          {[id |-> nid,
                            title |-> CanonicalDict({source_event_id}).title,
                            source_count |->
                                CanonicalDict({source_event_id}).source_count,
                            needs_review |-> FALSE]},
                      !.canonical_event_sources = @ \cup
                          {[canonical_event_id |-> nid,
                            source_event_id |-> source_event_id]}]
         IN [status |-> 200, tables |-> t3, next_id |-> nid + 1,
             audit |-> [action_type |-> "split",
                        canonical_event_id |->
                            IF deleted THEN Some(nid)
                            ELSE Some(canonical_event_id),
                        source_event_id |-> Some(source_event_id),
                        details |->
                            [target_canonical_id |-> Null,
                             original_deleted |-> deleted,
                             new_canonical_id |-> nid]]]

\* merge_canonical_events(session, source_canonical_id, target_canonical_id)
merge_canonical_events(tables, nid, source_canonical_id, target_canonical_id) ==
    LET donor_links == LinksOf(tables, source_canonical_id)
        existing_target_ids == SourcesOf(tables, target_canonical_id)
        moved == {l.source_event_id : l \in donor_links} \ existing_target_ids
        t1 == [tables EXCEPT !.canonical_event_sources =
                  (@ \ donor_links) \cup
                  {[canonical_event_id |-> target_canonical_id,
                    source_event_id |-> s] : s \in moved}]
        t2 == [t1 EXCEPT
                 !.canonical_event_sources =
                     @ \ LinksOf(t1, source_canonical_id),
                 !.canonical_events =
                     {c \in @ : c.id # source_canonical_id}]
        t3 == [t2 EXCEPT !.canonical_events =
                 {IF c.id = target_canonical_id
                  THEN Resynthesized(c, SourcesOf(t2, c.id))
                  ELSE c : c \in @}]
    IN
    IF source_canonical_id = target_canonical_id
    THEN Rejected(tables, nid, 400)
    ELSE IF \/ \A c \in tables.canonical_events : c.id # source_canonical_id
            \/ \A c \in tables.canonical_events : c.id # target_canonical_id
    THEN Rejected(tables, nid, 404)
    ELSE [status |-> 200, tables |-> t3, next_id |-> nid,
          audit |-> [action_type |-> "merge",
                     canonical_event_id |-> Some(target_canonical_id),
                     source_event_id |-> Null,
                     details |->
                         [deleted_canonical_id |-> source_canonical_id,
                          sources_moved |-> Cardinality(moved),
                          new_source_count |->
                              Cardinality(SourcesOf(t3, target_canonical_id))]]]

\* dismiss_from_queue(event_id): clear needs_review and log the action
dismiss_from_queue(tables, nid, event_id) ==
    IF \A c \in tables.canonical_events : c.id # event_id
    THEN Rejected(tables, nid, 404)
    ELSE [status |-> 200,
          tables |-> [tables EXCEPT !.canonical_events =
                        {IF c.id = event_id
                         THEN [c EXCEPT !.needs_review = FALSE]
                         ELSE c : c \in @}],
          next_id |-> nid,
          audit |-> [action_type |-> "review_dismiss",
                     canonical_event_id |-> Some(event_id),
                     source_event_id |-> Null,
                     details |-> [reason |-> "reviewed"]]]

\* the ids a request can name: those of the stored canonical events and one
\* no canonical event carries
RequestIds == {c.id : c \in db.canonical_events} \cup {next_id}

\* one request of a review endpoint, answered between two orchestrator calls
Review(r) ==
    /\ opc \in Resting
    /\ Len(audit_log) < MaxReviews
    /\ db' = r.tables
    /\ next_id' = r.next_id
    /\ audit_log' = IF r.status = 200 THEN Append(audit_log, r.audit)
                    ELSE audit_log
    /\ UNCHANGED <<file_ingestions, source_events, session, opc, events,
                   pipeline_result, insert_k, runs, db_before,
                   persisted_result, failed_at, reader_view, resolverVars,
                   gateVars, pureVars>>

\* POST /api/review/split without target_canonical_id
SplitToNew ==
    \E c \in RequestIds, s \in source_events :
        Review(split_source_from_canonical(db, next_id, c, s, Null))

\* POST /api/review/split with target_canonical_id
SplitToTarget ==
    \E c \in RequestIds, s \in source_events, t \in RequestIds :
        Review(split_source_from_canonical(db, next_id, c, s, Some(t)))

\* POST /api/review/merge
Merge ==
    \E d \in RequestIds, t \in RequestIds :
        Review(merge_canonical_events(db, next_id, d, t))

\* POST /api/review/queue/{event_id}/dismiss
Dismiss ==
    \E e \in RequestIds : Review(dismiss_from_queue(db, next_id, e))

NextReview ==
    \/ \E f \in Files : StartFile(f)
    \/ StartBatch
    \/ Load
    \/ RunPipeline
    \/ MaybeResolveAI
    \/ BeginPersist
    \/ DeleteMatchDecisions
    \/ DeleteSources
    \/ DeleteCanonicals
    \/ InsertCanonical
    \/ InsertDecisions
    \/ Commit
    \/ Fail
    \/ SplitToNew
    \/ SplitToTarget
    \/ Merge
    \/ Dismiss

SpecReview == InitPersist /\ [][NextReview]_vars

\* every linked source event has exactly one link, every link is of a stored
\* canonical event, and every stored canonical event has a link
WellLinked(tables) ==
    /\ \A l1, l2 \in tables.canonical_event_sources :
          l1.source_event_id = l2.source_event_id => l1 = l2
    /\ \A l \in tables.canonical_event_sources :
          \E c \in tables.canonical_events : c.id = l.canonical_event_id
    /\ \A c \in tables.canonical_events : LinksOf(tables, c.id) # {}

LinkedSources(tables) ==
    {l.source_event_id : l \in tables.canonical_event_sources}

\* C24: a successful split or merge, applied to tables in which every source
\* event is linked to exactly one stored canonical event and no canonical
\* event is without links, leaves tables of that kind with the same source
\* events linked; a canonical event whose last source was split off is gone,
\* and the donor of a merge is gone after its sources are linked to the
\* target.
C24_SplitMergeKeepLinks ==
    [][ (/\ audit_log' # audit_log
         /\ audit_log'[Len(audit_log')].action_type \in {"split", "merge"}
         /\ WellLinked(db))
        => LET row == audit_log'[Len(audit_log')] IN
           /\ WellLinked(db')
           /\ LinkedSources(db') = LinkedSources(db)
           /\ \A c \in db.canonical_events :
                 (/\ row.action_type = "split"
                  /\ SourcesOf(db, c.id) = {row.source_event_id.id}
                  /\ \/ row.details.target_canonical_id.is_none
                     \/ row.details.target_canonical_id.id # c.id)
                 => /\ \A n \in db'.canonical_events : n.id # c.id
                    /\ row.details.original_deleted
           /\ row.action_type = "merge" =>
                 /\ \A n \in db'.canonical_events :
                       n.id # row.details.deleted_canonical_id
                 /\ SourcesOf(db, row.details.deleted_canonical_id)
                       \subseteq SourcesOf(db', row.canonical_event_id.id)
                 /\ SourcesOf(db, row.canonical_event_id.id)
                       \subseteq SourcesOf(db', row.canonical_event_id.id)
      ]_vars

\* C24 witness: the last source of a canonical event was split off to a new
\* canonical event and the emptied one was deleted, then two canonical
\* events were merged and the donor was deleted.
C24_Witness ==
    /\ Len(audit_log) = 2
    /\ audit_log[1].action_type = "split"
    /\ audit_log[1].details.original_deleted
    /\ audit_log[2].action_type = "merge"
    /\ audit_log[2].details.sources_moved >= 1
    /\ WellLinked(db)
    /\ db.canonical_events # {}


\* two source events are in one cluster of a pipeline result
TogetherIn(r, a, b) ==
    \E k \in 1..Len(r.all_clusters) :
        a \in r.all_clusters[k] /\ b \in r.all_clusters[k]

\* the run groups the events of the run before it as that run did
SameAsRunBefore ==
    /\ persisted_result # None
    /\ \A k \in 1..Len(persisted_result.all_clusters) :
         \A a, b \in persisted_result.all_clusters[k] :
             TogetherIn(pipeline_result, a, b)
    /\ \A k1, k2 \in 1..Len(persisted_result.all_clusters) :
         k1 # k2 =>
           \A a \in persisted_result.all_clusters[k1],
              b \in persisted_result.all_clusters[k2] :
                 ~TogetherIn(pipeline_result, a, b)

\* C30: when a later run commits its result, the groupings the review
\* operations set in the tables it replaces are still there: a source event
\* that was split off is not linked to a canonical event holding a source of
\* the canonical event it was split from, the sources of a merged canonical
\* event are still linked to one canonical event, and the canonical event of
\* the sources of a dismissed one is not flagged for review.
C30_ReviewedGroupingsSurvive ==
    [][ (/\ opc = "commit"
         /\ opc' = "completed"
         /\ SameAsRunBefore)
        => \A i \in 1..Len(audit_log) :
             LET row == audit_log[i] IN
             \A c \in db.canonical_events :
               (~row.canonical_event_id.is_none /\ row.canonical_event_id.id = c.id)
               =>
               /\ (/\ row.action_type = "split"
                   /\ ~row.details.original_deleted
                   /\ row.source_event_id.id \notin SourcesOf(db, c.id))
                  => \A n \in db'.canonical_events :
                        row.source_event_id.id \in SourcesOf(db', n.id)
                          => SourcesOf(db', n.id) \cap SourcesOf(db, c.id) = {}
               /\ row.action_type = "merge"
                  => \E n \in db'.canonical_events :
                        SourcesOf(db, c.id) \subseteq SourcesOf(db', n.id)
               /\ (row.action_type = "review_dismiss" /\ ~c.needs_review)
                  => \A n \in db'.canonical_events :
                        SourcesOf(db', n.id) = SourcesOf(db, c.id)
                          => ~n.needs_review
      ]_vars

====
